---- MODULE Spec2Model ----
(***************************************************************************)
(* process_control: waiting for a child process under a time limit, with   *)
(* optional termination on timeout and optional capture of its output.     *)
(*                                                                         *)
(* Spec        the POSIX wait() state machine: caller thread, background   *)
(*             wait worker, the child, the kernel's process table.         *)
(* SpecRead    read2: the poll loop draining the pipes of a child that     *)
(*             writes to them, with a filter per chunk.                    *)
(* SpecOutput  read2 for a child that writes more to each stream than a    *)
(*             pipe holds, every thread being scheduled fairly.            *)
(* SpecStdin   wait() on a child that reads its piped stdin to the end.    *)
(* SpecTimed   wait() with its threads scheduled fairly, the child free.   *)
(* SpecEintr   output capture with signals interrupting the blocked calls. *)
(* SpecBuilder the filter methods of the builder, then wait().             *)
(* SpecHandles terminate, terminate_if_running and the memory limit of     *)
(*             windows/mod.rs, beside the same calls on Unix.              *)
(* SpecStatus  the exit status built from what the kernel reports.         *)
(* SpecHandleWait  the time limit of SharedHandle::wait, cut into DWORDs.  *)
(* SpecWinRead  one pipe read with overlapped I/O, and its Drop.           *)
(* SpecSignal  the signal-based wait with its mutex, slot and SIGCHLD.     *)
(* SpecStopped wait() on a child that job-control signals stop.            *)
(* SpecHeld    output capture while another process holds a pipe open.     *)
(* SpecJob     the job object of a handle under set_memory_limit calls.    *)
(***************************************************************************)
EXTENDS Integers, Sequences, FiniteSets, TLC

VARIABLES
    opt,            \* the builder's options, fixed when wait() is called
    proc,           \* kernel: "running" | "zombie" | "reaped"
    osStatus,       \* kernel: the wait status of the child once it has exited
    recycled,       \* kernel: the identifier now names an unrelated process
    childStatus,    \* std::process::Child: the cached exit status
    pc,             \* caller thread: position in wait()
    result,         \* caller thread: `result` of Buffer::wait / Control::wait
    wk,             \* background wait worker: position
    wkRes,          \* background wait worker: value of run_fn()
    chan,           \* the mpsc channel: <<>> or <<message>>
    rxAlive,        \* the receiver has not been dropped yet
    reader,         \* output reader thread: "none" | "running" | "ok" | its error
    kills,          \* history: what the SIGKILLs of wait() reached
    faults,         \* history: the calls that failed
    procAtTimeout,  \* history: proc when recv_timeout expired, else "n/a"
    hist,           \* history: the order of peek end, decision, kill, reap
    termLog,        \* history: the last call of Terminator::terminate
    rd,             \* state of read2 and of the writing child (SpecRead)
    stdin,          \* Child::stdin: "none" | "open" | "closed" (dropped)
    eintr,          \* history: system calls a signal interrupted (SpecEintr)
    win             \* the process, job and calls of windows/mod.rs (SpecHandles)

vars == <<opt, proc, osStatus, recycled, childStatus, pc, result, wk, wkRes,
          chan, rxAlive, reader, kills, faults, procAtTimeout, hist, termLog,
          rd, stdin, eintr, win>>

\* everything but the handle-based platform's state
unixVars == <<opt, proc, osStatus, recycled, childStatus, pc, result, wk,
              wkRes, chan, rxAlive, reader, kills, faults, procAtTimeout,
              hist, termLog, rd, stdin, eintr>>

waitVars == <<opt, proc, osStatus, recycled, childStatus, pc, result, wk,
              wkRes, chan, rxAlive, reader, kills, faults, procAtTimeout,
              hist, termLog, stdin, eintr, win>>

----------------------------------------------------------------------------
(* Values *)

SIGKILL == 9

NoStatus == [kind |-> "None", value |-> 0]
Exited(code) == [kind |-> "Exited", value |-> code]
Killed(signal) == [kind |-> "Killed", value |-> signal]

\* WaitResult<T> = io::Result<Option<T>>
Pending == [tag |-> "pending", status |-> NoStatus, error |-> ""]
OkSome(s) == [tag |-> "some", status |-> s, error |-> ""]
OkNone == [tag |-> "none", status |-> NoStatus, error |-> ""]
Err(e) == [tag |-> "err", status |-> NoStatus, error |-> e]

IsOk(r) == r.tag \in {"some", "none"}
IsOkSome(r) == r.tag = "some"

\* on POSIX there is no process handle and no job object
WinOff == [platform |-> "unix"]

\* ExitStatus accessors
code(s) == IF s.kind = "Exited" THEN <<s.value>> ELSE <<>>
success(s) == code(s) = <<0>>

Dumped(v) == [kind |-> "Dumped", value |-> v]
Stopped(v) == [kind |-> "Stopped", value |-> v]
Continued(v) == [kind |-> "Continued", value |-> v]
Uncategorized(v) == [kind |-> "Uncategorized", value |-> v]

SignalKilledOnly(s) == IF s.kind = "Killed" THEN <<s.value>> ELSE <<>>
signal(s) == IF s.kind \in {"Dumped", "Killed"} THEN <<s.value>> ELSE <<>>
stopped_signal(s) == IF s.kind = "Stopped" THEN <<s.value>> ELSE <<>>
continued(s) == s.kind = "Continued"
core_dumped(s) == s.kind = "Dumped"

----------------------------------------------------------------------------
(* Bounds *)

MaxExitCode == 1

ExitCodes == 0..MaxExitCode

Versions == {"buffer", "control", "timeout"}

----------------------------------------------------------------------------
(* The kernel: process table, signals, wait statuses *)

\* What a signal sent to the child's identifier reaches.
KillTarget ==
    IF proc = "running" THEN "running"
    ELSE IF proc = "zombie" THEN "zombie"
    ELSE IF recycled THEN "other"
    ELSE "none"

\* The child exits by itself with its exit code, its output written. A
\* child whose stdin is piped reads it until end of file first, as the perl
\* of test_stdin does: that is, until the parent has dropped the handle.
ChildExit ==
    /\ proc = "running"
    /\ stdin # "open"
    /\ \A s \in DOMAIN rd.closed : rd.closed[s]
    /\ proc' = "zombie"
    /\ osStatus' = Exited(opt.exit_code)
    /\ UNCHANGED <<opt, stdin, eintr, win, recycled, childStatus, pc, result, wk, wkRes, chan,
                   rxAlive, reader, kills, faults, procAtTimeout, hist,
                   termLog, rd>>

\* Once the child is reaped the kernel may give its identifier to a new,
\* unrelated process.
Recycle ==
    /\ proc = "reaped"
    /\ ~recycled
    /\ recycled' = TRUE
    /\ UNCHANGED <<opt, stdin, eintr, win, proc, osStatus, childStatus, pc, result, wk, wkRes,
                   chan, rxAlive, reader, kills, faults, procAtTimeout, hist,
                   termLog, rd>>

----------------------------------------------------------------------------
(* Decisions of wait() *)

\* the waitid flags WEXITED | WNOWAIT | WSTOPPED: the status is left in place
WaitidReaping == FALSE
WaitidNoWait == TRUE

\* `self.terminate_for_timeout && !matches!(result, Ok(Some(_)))`
ShouldTerminateUnasked(terminate, r) == ~IsOkSome(r)
ShouldTerminateInverted(terminate, r) == terminate /\ IsOkSome(r)
ShouldTerminateAlways(terminate, r) == terminate
ShouldTerminateUnlessFailed(terminate, r) == terminate /\ r.tag # "err"
ShouldTerminate(terminate, r) == terminate /\ ~IsOkSome(r)

\* `if self.strict_errors && result.is_ok() { if let Err(e) = next { .. } }`
StrictReplaceOverriding(strict, r, next) ==
    IF strict /\ next.tag = "err" THEN next ELSE r
StrictReplaceAlways(strict, r, next) ==
    IF IsOk(r) /\ next.tag = "err" THEN next ELSE r
StrictReplace(strict, r, next) ==
    IF strict /\ IsOk(r) /\ next.tag = "err" THEN next ELSE r

\* control.rs try_run!: `if result.is_ok() { if let Err(e) = f() { .. } }`
TryRun(r, next) == IF IsOk(r) /\ next.tag = "err" THEN next ELSE r

\* run_wait of `Child`: the reader is joined only when a status was obtained.
JoinResultIgnored(r, readerState) == r
JoinResult(r, readerState) ==
    IF IsOkSome(r) /\ readerState # "ok" THEN Err(readerState) ELSE r

\* where wait() continues once the termination block is over
AfterTerminate == IF opt.version = "buffer" THEN "done" ELSE "final_try_wait"

\* after kill: control/mod.rs and control.rs chain the reap with and_then,
\* timeout.rs with `and`, whose argument is evaluated whatever kill returned
AfterKillAndThen(r) == IF IsOk(r) THEN "reap" ELSE AfterTerminate
AfterKill(r) ==
    IF IsOk(r) \/ opt.version = "timeout" THEN "reap" ELSE AfterTerminate

Reaps(e) == Append(e, "reap")

----------------------------------------------------------------------------
(* std::process::Child, as the code uses it *)

\* Child::try_wait: the cached status, else waitpid(WNOHANG), which reaps.
TryWaitRet(fail, site) ==
    IF childStatus # NoStatus THEN OkSome(childStatus)
    ELSE IF proc = "reaped" THEN Err("ECHILD")
    ELSE IF fail THEN Err(site)
    ELSE IF proc = "zombie" THEN OkSome(osStatus)
    ELSE OkNone

\* Child::kill: nothing is sent once the status is cached, else kill(2).
\* ESRCH when nothing holds the identifier, EPERM when `fail`.
KillRet(fail) ==
    IF childStatus # NoStatus THEN OkNone
    ELSE IF KillTarget = "none" THEN Err("ESRCH")
    ELSE IF fail THEN Err("kill")
    ELSE OkNone

\* (KillDeliveredRaw: kill(2) on the identifier whatever the Child knows,
\* as DuplicatedHandle::terminate does)
KillDeliveredRaw(fail) ==
    KillTarget # "none" /\ ~fail
KillDelivered(fail) ==
    childStatus = NoStatus /\ KillTarget # "none" /\ ~fail

\* Child::wait: the cached status, else a blocking waitpid, which reaps.
ChildWaitRet(fail) ==
    IF childStatus # NoStatus THEN OkSome(childStatus)
    ELSE IF proc = "reaped" THEN Err("ECHILD")
    ELSE IF fail THEN Err("reap")
    ELSE OkSome(osStatus)

ChildWaitReady(fail) ==
    childStatus # NoStatus \/ proc # "running" \/ fail

\* whether a call returning r took the status out of the kernel
Consumed(r) == childStatus = NoStatus /\ IsOkSome(r)

FaultOf(r) == IF r.tag = "err" THEN {r.error} ELSE {}

\* the status becomes the caller's: the reader is joined next, if any
GotStatus == IF opt.output THEN "join" ELSE "decide"

----------------------------------------------------------------------------
(* The caller thread: Buffer::wait (control/mod.rs), Control::wait          *)
(* (control.rs) and the run_wait each of them calls                         *)

\* `let _ = self.process.get().stdin.take();`: the handle, if there is one,
\* is dropped, which closes the write end the child reads from.
StdinKept(handle) == handle
StdinTaken(handle) == IF handle = "open" THEN "closed" ELSE handle

StdinTake ==
    /\ pc = "wait"
    /\ stdin' = StdinTaken(stdin)
    /\ pc' = "run_wait"
    /\ UNCHANGED <<opt, eintr, win, proc, osStatus, recycled, childStatus, result, wk,
                   wkRes, chan, rxAlive, reader, kills, faults, procAtTimeout,
                   hist, termLog, rd>>

\* run_wait: for a `Child` the reader thread is spawned before anything else.
WaitStart ==
    /\ pc = "run_wait"
    /\ \E fail \in BOOLEAN :
        IF opt.output /\ fail
        THEN /\ result' = Err("spawn_reader")
             /\ faults' = faults \cup {"spawn_reader"}
             /\ pc' = "decide"
             /\ UNCHANGED reader
        ELSE /\ reader' = IF opt.output THEN "running" ELSE reader
             /\ pc' = "try_wait"
             /\ UNCHANGED <<result, faults>>
    /\ UNCHANGED <<opt, stdin, eintr, win, proc, osStatus, recycled, childStatus, wk, wkRes,
                   chan, rxAlive, kills, procAtTimeout, hist, termLog, rd>>

\* `let result = self.try_wait(); if let Ok(Some(exit_status)) = result`
\* `if let Ok(Some(exit_status)) = result { return ... }`: any other result
\* of try_wait, an error included, goes on to the memory limit
TryWaitIgnored(r) == "memory_limit"
AfterTryWait(r) == IF IsOkSome(r) THEN GotStatus ELSE "memory_limit"

TryWait ==
    /\ pc = "try_wait"
    /\ \E fail \in BOOLEAN :
        LET r == TryWaitRet(fail, "try_wait") IN
        /\ faults' = faults \cup FaultOf(r)
        /\ IF Consumed(r)
           THEN proc' = "reaped" /\ childStatus' = osStatus
                /\ hist' = Reaps(hist)
           ELSE UNCHANGED <<proc, childStatus, hist>>
        /\ result' = IF IsOkSome(r) THEN r ELSE result
        /\ pc' = AfterTryWait(r)
    /\ UNCHANGED <<opt, stdin, eintr, win, osStatus, recycled, wk, wkRes, chan, rxAlive, reader,
                   kills, procAtTimeout, termLog, rd>>

\* `handle.set_memory_limit(memory_limit)?`
\* `handle.set_memory_limit(memory_limit)?;`: an error leaves run_wait
MemoryLimitErrorDropped(failed) == "handle_wait"
AfterMemoryLimit(failed) == IF failed THEN "decide" ELSE "handle_wait"

MemoryLimit ==
    /\ pc = "memory_limit"
    /\ \E fail \in BOOLEAN :
        /\ IF opt.memory_limit /\ fail
           THEN /\ result' = Err("memory_limit")
                /\ faults' = faults \cup {"memory_limit"}
           ELSE UNCHANGED <<result, faults>>
        /\ pc' = AfterMemoryLimit(opt.memory_limit /\ fail)
    /\ UNCHANGED <<opt, stdin, eintr, win, proc, osStatus, recycled, childStatus, wk, wkRes,
                   chan, rxAlive, reader, kills, procAtTimeout, hist, termLog,
                   rd>>

\* run_with_time_limit: without a limit run_fn runs on this thread, with one
\* a worker is spawned and the caller goes to recv_timeout.
WorkerAlways == TRUE
WorkerNeeded == opt.time_limit

HandleWait ==
    /\ pc = "handle_wait"
    /\ \E fail \in BOOLEAN :
        IF ~WorkerNeeded
        THEN /\ pc' = "waitid"
             /\ UNCHANGED <<result, faults, wk, rxAlive>>
        ELSE IF fail
        THEN /\ result' = Err("spawn")
             /\ faults' = faults \cup {"spawn"}
             /\ pc' = "decide"
             /\ UNCHANGED <<wk, rxAlive>>
        ELSE /\ wk' = "run_fn"
             /\ rxAlive' = TRUE
             /\ pc' = "recv"
             /\ UNCHANGED <<result, faults>>
    /\ UNCHANGED <<opt, stdin, eintr, win, proc, osStatus, recycled, childStatus, wkRes, chan,
                   reader, kills, procAtTimeout, hist, termLog, rd>>

\* run_fn of unix/wait/waitid.rs: waitid(P_PID, pid, WEXITED | WNOWAIT |
\* WSTOPPED) blocks until the child has exited; EINTR is retried.
WaitidReady(fail) == proc # "running" \/ fail

WaitidRet(fail) ==
    IF proc = "reaped" THEN Err("ECHILD")
    ELSE IF fail THEN Err("waitid")
    ELSE OkSome(osStatus)

\* without WNOWAIT the status would be taken out of the kernel here
WaitidProc(r) ==
    IF IsOkSome(r) /\ ~WaitidNoWait THEN "reaped" ELSE proc

\* unix/wait/common.rs: the Child is lent to run_fn through a mutex slot,
\* which `_guard` empties when wait returns.
SlotHeld == pc \in {"waitid", "recv", "guard"}

\* run_fn of unix/wait/common.rs: under the lock, try_wait on the Child of
\* the slot, else TimedOut; between two rounds it sleeps until a SIGCHLD.
SignalReady(fail) ==
    ~SlotHeld \/ proc # "running" \/ childStatus # NoStatus \/ fail

SignalRet(fail) ==
    IF SlotHeld THEN TryWaitRet(fail, "waitid") ELSE Err("TimedOut")

\* the back-end build.rs selects with process_control_unix_waitid
RunFnReady(fail) ==
    IF opt.unix_waitid THEN WaitidReady(fail) ELSE SignalReady(fail)

RunFnRet(fail) ==
    IF opt.unix_waitid THEN WaitidRet(fail) ELSE SignalRet(fail)

RunFnProc(r) ==
    IF opt.unix_waitid THEN WaitidProc(r)
    ELSE IF Consumed(r) THEN "reaped" ELSE proc

RunFnCached(r) ==
    IF ~opt.unix_waitid /\ Consumed(r) THEN osStatus ELSE childStatus

RunFnHist(r) == IF RunFnProc(r) # proc THEN Reaps(hist) ELSE hist

\* `handle.wait(options.time_limit)?` and what run_wait does with a status:
\* control/mod.rs consumes it with try_wait, control.rs returns it as it is.
AfterPeekJoining(m) ==
    IF opt.version = "buffer" /\ IsOkSome(m) THEN "try_wait2" ELSE GotStatus
AfterPeek(m) ==
    IF ~IsOkSome(m) THEN "decide"
    ELSE IF opt.version = "buffer" THEN "try_wait2"
    ELSE GotStatus

\* no time limit: `return Ok(Some(run_fn()))` on the caller's thread
InlineRunFn ==
    /\ pc = "waitid"
    /\ \E fail \in BOOLEAN :
        /\ RunFnReady(fail)
        /\ LET r == RunFnRet(fail) IN
            /\ proc' = RunFnProc(r)
            /\ childStatus' = RunFnCached(r)
            /\ faults' = faults \cup FaultOf(r)
            /\ result' = r
            /\ pc' = AfterPeek(r)
            /\ hist' = Append(RunFnHist(r), "peek")
    /\ UNCHANGED <<opt, stdin, eintr, win, osStatus, recycled, wk, wkRes, chan, rxAlive, reader,
                   kills, procAtTimeout, termLog, rd>>

\* `result_receiver.recv_timeout(time_limit).ok()`: a message that is there
\* is taken
RecvMessage ==
    /\ pc = "recv"
    /\ chan # <<>>
    /\ result' = chan[1]
    /\ pc' = AfterPeek(chan[1])
    /\ chan' = <<>>
    /\ rxAlive' = FALSE
    /\ faults' = faults \cup FaultOf(chan[1])
    /\ hist' = Append(hist, "peek")
    /\ UNCHANGED <<opt, stdin, eintr, win, proc, osStatus, recycled, childStatus, wk, wkRes,
                   reader, kills, procAtTimeout, termLog, rd>>

\* ... and with no message when the limit elapses the wait is Ok(None); the
\* receiver is dropped, the worker is left alone.
RecvTimeout ==
    /\ pc = "recv"
    /\ chan = <<>>
    /\ result' = OkNone
    /\ pc' = IF opt.unix_waitid THEN "decide" ELSE "guard"
    /\ rxAlive' = FALSE
    /\ procAtTimeout' = proc
    /\ hist' = IF opt.unix_waitid THEN Append(hist, "peek") ELSE hist
    /\ UNCHANGED <<opt, stdin, eintr, win, proc, osStatus, recycled, childStatus, wk, wkRes,
                   chan, reader, kills, faults, termLog, rd>>

\* unix/wait/common.rs: `_guard` is dropped as wait returns and takes the
\* Child out of the slot, after any try_wait the worker is in.
GuardDrop ==
    /\ pc = "guard"
    /\ pc' = "decide"
    /\ hist' = Append(hist, "peek")
    /\ UNCHANGED <<opt, stdin, eintr, win, proc, osStatus, recycled, childStatus, result, wk,
                   wkRes, chan, rxAlive, reader, kills, faults, procAtTimeout,
                   termLog, rd>>

\* control/mod.rs: `self.try_wait().map(|std_result| ExitStatus::new(result,
\* std_result.expect("missing exit status")))`
TryWait2 ==
    /\ pc = "try_wait2"
    /\ \E fail \in BOOLEAN :
        LET r == TryWaitRet(fail, "try_wait2") IN
        /\ faults' = faults \cup FaultOf(r)
        /\ IF Consumed(r)
           THEN proc' = "reaped" /\ childStatus' = osStatus
                /\ hist' = Reaps(hist)
           ELSE UNCHANGED <<proc, childStatus, hist>>
        /\ IF IsOkSome(r) THEN pc' = GotStatus /\ UNCHANGED result
           ELSE IF r = OkNone THEN pc' = "panic" /\ UNCHANGED result
           ELSE pc' = "decide" /\ result' = r
    /\ UNCHANGED <<opt, stdin, eintr, win, osStatus, recycled, wk, wkRes, chan, rxAlive, reader,
                   kills, procAtTimeout, termLog, rd>>

\* run_wait of `Child`: `.map(|status| reader.join()...)` once a status is
\* there; join blocks until the reader has returned.
Join ==
    /\ pc = "join"
    /\ reader \notin {"none", "running"}
    /\ result' = JoinResult(result, reader)
    /\ faults' = faults \cup FaultOf(JoinResult(result, reader))
    /\ pc' = "decide"
    /\ UNCHANGED <<opt, stdin, eintr, win, proc, osStatus, recycled, childStatus, wk, wkRes,
                   chan, rxAlive, reader, kills, procAtTimeout, hist, termLog,
                   rd>>

\* `if self.terminate_for_timeout && !matches!(result, Ok(Some(_)))`
Decide ==
    /\ pc = "decide"
    /\ pc' = IF ShouldTerminate(opt.terminate_for_timeout, result)
             THEN "kill" ELSE AfterTerminate
    /\ hist' = Append(hist, "decide")
    /\ UNCHANGED <<opt, stdin, eintr, win, proc, osStatus, recycled, childStatus, result, wk,
                   wkRes, chan, rxAlive, reader, kills, faults, procAtTimeout,
                   termLog, rd>>

\* `process.kill()`, the first half of next_result
Kill ==
    /\ pc = "kill"
    /\ \E fail \in BOOLEAN :
        LET r == KillRet(fail) IN
        /\ faults' = faults \cup FaultOf(r)
        /\ IF KillDelivered(fail)
           THEN /\ kills' = kills \cup {KillTarget}
                /\ hist' = Append(hist, "kill")
                /\ proc' = IF proc = "running" THEN "zombie" ELSE proc
                /\ osStatus' = IF proc = "running" THEN Killed(SIGKILL)
                               ELSE osStatus
           ELSE UNCHANGED <<kills, hist, proc, osStatus>>
        /\ result' = StrictReplace(opt.strict_errors, result, r)
        /\ pc' = AfterKill(r)
    /\ UNCHANGED <<opt, stdin, eintr, win, recycled, childStatus, wk, wkRes, chan, rxAlive,
                   reader, procAtTimeout, termLog, rd>>

\* `.and_then(|()| process.wait())`, then the strict_errors block
Reap ==
    /\ pc = "reap"
    /\ \E fail \in BOOLEAN :
        /\ ChildWaitReady(fail)
        /\ LET r == ChildWaitRet(fail) IN
            /\ faults' = faults \cup FaultOf(r)
            /\ IF Consumed(r)
               THEN proc' = "reaped" /\ childStatus' = osStatus
                    /\ hist' = Reaps(hist)
               ELSE UNCHANGED <<proc, childStatus, hist>>
            /\ result' = StrictReplace(opt.strict_errors, result, r)
    /\ pc' = AfterTerminate
    /\ UNCHANGED <<opt, stdin, eintr, win, osStatus, recycled, wk, wkRes, chan, rxAlive, reader,
                   kills, procAtTimeout, termLog, rd>>

\* control.rs: `try_run!(|| self.process.try_wait());`, the closure is
\* called only when result is Ok. timeout.rs: `try_run!(self.process
\* .try_wait());`, the call is made first and its error kept under
\* strict_errors.
FinalCheckMade(r) == opt.version = "timeout" \/ IsOk(r)

FinalCheckUngated(strict, r, next) == TryRun(r, next)
FinalCheckResult(strict, r, next) ==
    IF opt.version = "timeout" THEN StrictReplace(strict, r, next)
    ELSE TryRun(r, next)

FinalTryWait ==
    /\ pc = "final_try_wait"
    /\ \E fail \in BOOLEAN :
        LET r == TryWaitRet(fail, "final_try_wait") IN
        IF FinalCheckMade(result)
        THEN /\ faults' = faults \cup FaultOf(r)
             /\ IF Consumed(r)
                THEN proc' = "reaped" /\ childStatus' = osStatus
                     /\ hist' = Reaps(hist)
                ELSE UNCHANGED <<proc, childStatus, hist>>
             /\ result' = FinalCheckResult(opt.strict_errors, result, r)
        ELSE UNCHANGED <<faults, proc, childStatus, hist, result>>
    /\ pc' = "done"
    /\ UNCHANGED <<opt, stdin, eintr, win, osStatus, recycled, wk, wkRes, chan, rxAlive, reader,
                   kills, procAtTimeout, termLog, rd>>

----------------------------------------------------------------------------
(* The background wait worker: `move || result_sender.send(run_fn())` *)

WorkerRunFn ==
    /\ wk = "run_fn"
    /\ \E fail \in BOOLEAN :
        /\ RunFnReady(fail)
        /\ LET r == RunFnRet(fail) IN
            /\ wkRes' = r
            /\ proc' = RunFnProc(r)
            /\ childStatus' = RunFnCached(r)
            /\ hist' = RunFnHist(r)
    /\ wk' = "send"
    /\ UNCHANGED <<opt, stdin, eintr, win, osStatus, recycled, pc, result, chan, rxAlive, reader,
                   kills, faults, procAtTimeout, termLog, rd>>

\* send on a channel whose receiver is gone returns an error nobody reads,
\* and the message is dropped
SentAnyway(alive, c, m) == <<m>>
Sent(alive, c, m) == IF alive THEN <<m>> ELSE c

\* `result_sender.send(run_fn())` is the last thing the worker does
WorkerSend ==
    /\ wk = "send"
    /\ chan' = Sent(rxAlive, chan, wkRes)
    /\ wk' = "exit"
    /\ UNCHANGED <<opt, stdin, eintr, win, proc, osStatus, recycled, childStatus, pc, result,
                   wkRes, rxAlive, reader, kills, faults, procAtTimeout, hist,
                   termLog, rd>>

----------------------------------------------------------------------------
(* The output reader thread, by its outcome (read2 itself: SpecRead) *)

\* the pipes reach end of file once the child has exited
ReaderEof ==
    /\ reader = "running"
    /\ proc # "running"
    /\ reader' = "ok"
    /\ UNCHANGED <<opt, stdin, eintr, win, proc, osStatus, recycled, childStatus, pc, result, wk,
                   wkRes, chan, rxAlive, kills, faults, procAtTimeout, hist,
                   termLog, rd>>

\* a read or a filter fails
ReaderError ==
    /\ reader = "running"
    /\ reader' \in {"read", "filter"}
    /\ UNCHANGED <<opt, stdin, eintr, win, proc, osStatus, recycled, childStatus, pc, result, wk,
                   wkRes, chan, rxAlive, kills, faults, procAtTimeout, hist,
                   termLog, rd>>

----------------------------------------------------------------------------
(* After wait() has returned: the owner of the Child and of a Terminator *)

\* Child::wait by the owner, as the tests' assert_terminated does
UserWait ==
    /\ pc \in {"done", "after"}
    /\ childStatus = NoStatus
    /\ proc = "zombie"
    /\ proc' = "reaped"
    /\ childStatus' = osStatus
    /\ pc' = "after"
    /\ UNCHANGED <<opt, stdin, eintr, win, osStatus, recycled, result, wk, wkRes, chan, rxAlive,
                   reader, kills, faults, procAtTimeout, hist, termLog, rd>>

\* DuplicatedHandle::terminate: kill(pid, SIGKILL) on the recorded identifier,
\* ESRCH mapped to NotFound, any other error returned as it is.
TerminateRetUnmapped(fail) ==
    IF KillTarget = "none" THEN "ESRCH"
    ELSE IF fail THEN "EPERM"
    ELSE "Ok"
TerminateRet(fail) ==
    IF KillTarget = "none" THEN "NotFound"
    ELSE IF fail THEN "EPERM"
    ELSE "Ok"

\* kill(2) on the recorded identifier, as the kernel answers it
KillErrno(fail) ==
    IF KillTarget = "none" THEN "ESRCH"
    ELSE IF fail THEN "EPERM"
    ELSE "Ok"

NoCall == [op |-> "none", proc |-> "n/a", recycled |-> FALSE,
           errno |-> "n/a", result |-> "n/a", target |-> "none"]

Terminate ==
    /\ pc \in {"done", "after"}
    /\ pc' = "after"
    /\ \E fail \in BOOLEAN :
        LET r == TerminateRet(fail)
            hit == IF r = "Ok" THEN KillTarget ELSE "none" IN
        /\ termLog' = [op |-> "terminate", proc |-> proc,
                       recycled |-> recycled, errno |-> KillErrno(fail),
                       result |-> r, target |-> hit]
        /\ proc' = IF hit = "running" THEN "zombie" ELSE proc
        /\ osStatus' = IF hit = "running" THEN Killed(SIGKILL) ELSE osStatus
    /\ UNCHANGED <<opt, stdin, eintr, win, recycled, childStatus, result, wk, wkRes, chan,
                   rxAlive, reader, kills, faults, procAtTimeout, hist, rd>>

\* ChildExt::terminate_if_running on Unix: `process.kill()`
TerminateIfRunning ==
    /\ pc \in {"done", "after"}
    /\ pc' = "after"
    /\ \E fail \in BOOLEAN :
        LET r == KillRet(fail)
            hit == IF KillDelivered(fail) THEN KillTarget ELSE "none" IN
        /\ termLog' = [op |-> "terminate_if_running", proc |-> proc,
                       recycled |-> recycled,
                       errno |-> IF childStatus # NoStatus THEN "n/a"
                                 ELSE KillErrno(fail),
                       result |-> IF IsOk(r) THEN "Ok" ELSE KillErrno(fail),
                       target |-> hit]
        /\ proc' = IF hit = "running" THEN "zombie" ELSE proc
        /\ osStatus' = IF hit = "running" THEN Killed(SIGKILL) ELSE osStatus
    /\ UNCHANGED <<opt, stdin, eintr, win, recycled, childStatus, result, wk,
                   wkRes, chan, rxAlive, reader, kills, faults, procAtTimeout,
                   hist, rd>>

----------------------------------------------------------------------------
(* read2 *)

Streams == 1..2     \* stdout, stderr

PipeCapacity == 1   \* bytes a pipe holds before a write blocks
MaxWrite == 2       \* bytes the child writes to one stream, at most

\* the state of the child's output and of read2
\*   piped, filt   the stream is piped / has a filter of its own
\*   total, written, pipe, closed   the child's side and the kernel's buffer
\*   phase   "idle" | "new" | "poll" | "read" | "done" | "err"
\*   pipes   the Vec<AsyncPipe>, by stream; start, length: the poll window
\*   i, last   the `for` loop; revents, by position in fds
\*   index   buffer.len() when next_result was entered
\*   eof   next_result has returned false for the stream
\*   buf   the buffers; seen, acc: history of the filter calls; empty: a
\*        filter call was made with an empty chunk
RdOf(piped, filt, total, phase) ==
    [piped |-> piped, filt |-> filt, total |-> total,
     written |-> <<0, 0>>, pipe |-> << <<>>, <<>> >>,
     closed |-> <<~piped[1], ~piped[2]>>,
     phase |-> phase, pipes |-> <<>>, start |-> 0, length |-> 0,
     i |-> 0, last |-> 0, revents |-> <<FALSE, FALSE>>, index |-> 0,
     eof |-> <<FALSE, FALSE>>,
     buf |-> << <<>>, <<>> >>, seen |-> << <<>>, <<>> >>,
     acc |-> << <<>>, <<>> >>, empty |-> FALSE]

\* wait() of a Child whose output is not looked at
RdIdle == RdOf(<<FALSE, FALSE>>, <<FALSE, FALSE>>, <<0, 0>>, "idle")

\* the read ends are open until read2 returns and drops its pipes
ReadEndsOpen == rd.phase \notin {"done", "err"}

\* the child's next write would block
Blocked(s) ==
    /\ rd.piped[s] /\ ~rd.closed[s]
    /\ rd.written[s] < rd.total[s]
    /\ Len(rd.pipe[s]) >= PipeCapacity

\* The child writes its next byte to a stream: `print 'a' x $ARGV[1]`. A
\* write to a pipe nobody reads any more fails and the child gives the stream
\* up.
ChildWrite ==
    /\ proc = "running"
    /\ \E s \in Streams :
        /\ rd.piped[s] /\ ~rd.closed[s]
        /\ rd.written[s] < rd.total[s]
        /\ IF ReadEndsOpen
           THEN /\ ~Blocked(s)
                /\ rd' = [rd EXCEPT
                        !.pipe[s] = Append(@, rd.written[s] + 1),
                        !.written[s] = @ + 1]
           ELSE rd' = [rd EXCEPT !.closed[s] = TRUE]
    /\ UNCHANGED waitVars

\* The child is done with a stream: it closes it, at the latest by exiting.
ChildClose ==
    /\ proc = "running"
    /\ \E s \in Streams :
        /\ rd.piped[s] /\ ~rd.closed[s]
        /\ rd.written[s] = rd.total[s]
        /\ rd' = [rd EXCEPT !.closed[s] = TRUE]
    /\ UNCHANGED waitVars

\* everything of wait() that read2 leaves alone
callerVars == <<opt, proc, osStatus, recycled, childStatus, pc, result, wk,
                wkRes, chan, rxAlive, kills, faults, procAtTimeout, hist,
                termLog, stdin, eintr, win>>

\* `&buffer[index..]`
ChunkWhole(buffer, index) == buffer
Chunk(buffer, index) == SubSeq(buffer, index + 1, Len(buffer))

\* run_filter: `if !(filter)(&buffer[index..])? { buffer.truncate(index); }`
RunFilterKeeping(buffer, index, keep) == buffer
RunFilter(buffer, index, keep) ==
    IF keep THEN buffer ELSE SubSeq(buffer, 1, index)

\* next_result: `if self.buffer.len() != index { run_filter(..)?; }`
FilterCalledAlways(len, index) == TRUE
FilterCalled(len, index) == len # index

\* what a filter may answer: without one, `|_| Ok(true)`
FilterAnswers(s) ==
    IF rd.filt[s] THEN {"accept", "reject", "error"} ELSE {"accept"}

\* `start = i ^ 1`
NextStartSame(i) == i
NextStartZero(i) == 0
NextStart(i) == IF i % 2 = 0 THEN i + 1 ELSE i - 1

StreamAt(r, i) == r.pipes[i + 1]

\* `pipes.into_iter().zip(&mut buffers).filter_map(..)`: a pipe is paired
\* with the buffer of its own place before the absent pipes are left out
BufferPacked(s, piped) == Cardinality({t \in 1..s : piped[t]})
BufferOf(s, piped) == s

\* poll reports a pipe that has bytes (POLLIN) or whose writer is gone
\* (POLLHUP)
Ready(i) ==
    LET s == StreamAt(rd, i) IN rd.pipe[s] # <<>> \/ rd.closed[s]

InWindow(i) == rd.start <= i /\ i < rd.start + rd.length

\* `for i in (start..).take(length)`: the next i with `fds[i].revents != 0`
FirstReady(from, last, rev) ==
    IF \E j \in from..(last - 1) : rev[j + 1]
    THEN CHOOSE j \in from..(last - 1) :
            rev[j + 1] /\ \A k \in from..(j - 1) : ~rev[k + 1]
    ELSE last

\* the loops go on from position `from`: next_result of the next pipe that
\* is ready, else `while length != 0`, else `Ok(buffers)`
Continue(r, from) ==
    LET n == FirstReady(from, r.last, r.revents) IN
    IF n < r.last
    THEN [r EXCEPT !.phase = "read", !.i = n,
                   !.index = Len(r.buf[BufferOf(StreamAt(r, n), r.piped)])]
    ELSE IF r.length = 0 THEN [r EXCEPT !.phase = "done", !.i = n]
    ELSE [r EXCEPT !.phase = "poll", !.i = n]

ReaderAfter(r) == IF r.phase = "done" THEN "ok" ELSE "running"

\* `return Err(error)` and every `?`: the pipes and the buffers are dropped
Failed(r) ==
    [r EXCEPT !.phase = "err", !.pipes = <<>>, !.start = 0, !.length = 0,
              !.i = 0, !.last = 0, !.revents = <<FALSE, FALSE>>,
              !.index = 0, !.buf = << <<>>, <<>> >>]

\* read2, up to the loop: AsyncPipe::new sets the pipes that are there
\* non-blocking, fds, start, length
Read2Start ==
    /\ reader = "running"
    /\ rd.phase = "new"
    /\ \E fail \in BOOLEAN :
        IF fail /\ (rd.piped[1] \/ rd.piped[2])
        THEN /\ rd' = Failed(rd)
             /\ reader' = "fcntl"
        ELSE LET ps == SelectSeq(<<1, 2>>, LAMBDA s : rd.piped[s])
                 r == [rd EXCEPT !.pipes = ps, !.start = 0,
                                 !.length = Len(ps),
                                 !.phase = IF Len(ps) = 0 THEN "done"
                                           ELSE "poll"] IN
             /\ rd' = r
             /\ reader' = ReaderAfter(r)
    /\ UNCHANGED callerVars

\* `libc::poll(fds.as_mut_ptr().add(start), length.into(), -1)`, and the
\* `for` loop up to the first next_result
Poll ==
    /\ reader = "running"
    /\ rd.phase = "poll"
    /\ \E fail \in BOOLEAN :
        IF fail
        THEN /\ rd' = Failed(rd)
             /\ reader' = "poll"
        ELSE /\ \E i \in 0..1 : InWindow(i) /\ Ready(i)
             /\ LET rev == [j \in 1..2 |->
                             IF InWindow(j - 1) THEN Ready(j - 1)
                             ELSE rd.revents[j]]
                    r == [rd EXCEPT !.revents = rev,
                                    !.last = rd.start + rd.length] IN
                rd' = Continue(r, rd.start)
             /\ UNCHANGED reader
    /\ UNCHANGED callerVars

\* read_to_end appends what it reads to the Vec
ExtendFront(buffer, bytes) == bytes \o buffer
Extend(buffer, bytes) == buffer \o bytes

\* next_result, one read of read_to_end that returns bytes
ReadToEnd ==
    /\ reader = "running"
    /\ rd.phase = "read"
    /\ LET s == StreamAt(rd, rd.i) IN
        /\ rd.pipe[s] # <<>>
        /\ \E fail \in BOOLEAN :
            IF fail
            THEN /\ rd' = Failed(rd)
                 /\ reader' = "read"
            ELSE /\ rd' = [rd EXCEPT
                            !.buf[BufferOf(s, rd.piped)] =
                                Extend(@, rd.pipe[s]),
                            !.pipe[s] = <<>>]
                 /\ UNCHANGED reader
    /\ UNCHANGED callerVars

\* next_result, the read that ends read_to_end (end of file: false,
\* WouldBlock: true), run_filter on what was added, and in read2
\* `start = i ^ 1; length -= 1;` when the pipe is at its end
NextResult ==
    /\ reader = "running"
    /\ rd.phase = "read"
    /\ LET s == StreamAt(rd, rd.i)
           b == BufferOf(s, rd.piped)
           new == Chunk(rd.buf[b], rd.index)
           called == FilterCalled(Len(rd.buf[b]), rd.index)
           open == ~rd.closed[s] IN
        /\ rd.pipe[s] = <<>>
        /\ \E a \in FilterAnswers(s) :
            IF called /\ a = "error"
            THEN /\ rd' = Failed([rd EXCEPT !.seen[s] = @ \o new,
                                            !.empty = @ \/ new = <<>>])
                 /\ reader' = "filter"
            ELSE LET r == [rd EXCEPT
                            !.buf[b] = IF called
                                THEN RunFilter(@, rd.index, a = "accept")
                                ELSE @,
                            !.seen[s] = IF called THEN @ \o new ELSE @,
                            !.acc[s] = IF called /\ a = "accept"
                                THEN @ \o new ELSE @,
                            !.empty = @ \/ (called /\ new = <<>>),
                            !.eof[s] = ~open,
                            !.start = IF open THEN @ ELSE NextStart(rd.i),
                            !.length = IF open THEN @ ELSE @ - 1]
                     q == Continue(r, rd.i + 1) IN
                 /\ rd' = q
                 /\ reader' = ReaderAfter(q)
    /\ UNCHANGED callerVars

----------------------------------------------------------------------------
(* Specification of wait() *)

\* control.rs waits through SharedHandle::wait of unix/mod.rs, which is the
\* waitid loop; the signal-based wait exists for control/mod.rs only.
\* timeout.rs always has a time limit and knows no memory limit.
Options ==
    {o \in [version : Versions, time_limit : BOOLEAN,
            terminate_for_timeout : BOOLEAN, strict_errors : BOOLEAN,
            memory_limit : BOOLEAN, output : BOOLEAN, unix_waitid : BOOLEAN,
            exit_code : ExitCodes] :
        /\ o.version # "buffer" => o.unix_waitid
        /\ o.version = "timeout" => (o.time_limit /\ ~o.memory_limit)}

\* The child when wait() is called: running, exited and not yet waited for,
\* or already waited for by its owner (the tests' FinishedCommand).
Init ==
    /\ opt \in Options
    /\ \E start \in {"running", "zombie", "reaped"} :
        /\ proc = start
        /\ osStatus = IF start = "running" THEN NoStatus
                      ELSE Exited(opt.exit_code)
        /\ childStatus = IF start = "reaped" THEN Exited(opt.exit_code)
                         ELSE NoStatus
    /\ recycled = FALSE
    /\ pc = "wait"
    /\ result = Pending
    /\ wk = "none"
    /\ wkRes = Pending
    /\ chan = <<>>
    /\ rxAlive = FALSE
    /\ reader = "none"
    /\ kills = {}
    /\ faults = {}
    /\ procAtTimeout = "n/a"
    /\ hist = <<>>
    /\ termLog = NoCall
    /\ rd = RdIdle
    /\ stdin = "none"
    /\ eintr = 0
    /\ win = WinOff

Next ==
    \/ ChildExit
    \/ Recycle
    \/ StdinTake
    \/ WaitStart
    \/ TryWait
    \/ MemoryLimit
    \/ HandleWait
    \/ InlineRunFn
    \/ RecvMessage
    \/ RecvTimeout
    \/ GuardDrop
    \/ TryWait2
    \/ Join
    \/ Decide
    \/ Kill
    \/ Reap
    \/ FinalTryWait
    \/ WorkerRunFn
    \/ WorkerSend
    \/ ReaderEof
    \/ ReaderError
    \/ UserWait
    \/ Terminate

Spec == Init /\ [][Next]_vars

----------------------------------------------------------------------------
(* Specification of read2 under controlled_with_output().wait() *)

Pairs(S) == {<<a, b>> : a \in S, b \in S}

\* what is piped, which streams have a filter, how much the child writes
\* (filters: on every piped stream, or on none)
Outputs ==
    {RdOf(piped, <<piped[1] /\ f, piped[2] /\ f>>, total, "new") :
        piped \in Pairs(BOOLEAN), f \in BOOLEAN,
        total \in Pairs(0..MaxWrite)}

ReadOptions ==
    {o \in Options :
        /\ o.version = "buffer" /\ o.output /\ o.unix_waitid
        /\ ~o.memory_limit /\ ~o.terminate_for_timeout
        /\ ~o.strict_errors /\ o.exit_code = 0}

\* wait() is called on a child that has just been spawned
InitWith(options, outputs) ==
    /\ opt \in options
    /\ proc = "running"
    /\ osStatus = NoStatus
    /\ childStatus = NoStatus
    /\ recycled = FALSE
    /\ pc = "wait"
    /\ result = Pending
    /\ wk = "none"
    /\ wkRes = Pending
    /\ chan = <<>>
    /\ rxAlive = FALSE
    /\ reader = "none"
    /\ kills = {}
    /\ faults = {}
    /\ procAtTimeout = "n/a"
    /\ hist = <<>>
    /\ termLog = NoCall
    /\ rd \in outputs
    /\ stdin = "none"
    /\ eintr = 0
    /\ win = WinOff

\* any output, no time limit
InitRead ==
    InitWith({o \in ReadOptions : ~o.time_limit},
             {r \in Outputs :
                \A s \in Streams : ~r.piped[s] => r.total[s] = 0})

NextRead ==
    \/ ChildWrite
    \/ ChildClose
    \/ ChildExit
    \/ Read2Start
    \/ Poll
    \/ ReadToEnd
    \/ NextResult
    \/ StdinTake
    \/ WaitStart
    \/ TryWait
    \/ MemoryLimit
    \/ HandleWait
    \/ InlineRunFn
    \/ TryWait2
    \/ Join
    \/ Decide

SpecRead == InitRead /\ [][NextRead]_vars

\* test_large_output: both streams piped, no filter, more written to each
\* than a pipe holds, with or without a time limit; every thread and the
\* child keep being scheduled.
InitOutput ==
    InitWith(ReadOptions,
             {r \in Outputs :
                /\ r.piped = <<TRUE, TRUE>>
                /\ r.filt = <<FALSE, FALSE>>
                /\ \A s \in Streams : r.total[s] > PipeCapacity})

NextOutput ==
    \/ NextRead
    \/ RecvMessage
    \/ RecvTimeout
    \/ WorkerRunFn
    \/ WorkerSend

ChildSteps == ChildWrite \/ ChildClose \/ ChildExit

ReaderSteps == Read2Start \/ Poll \/ ReadToEnd \/ NextResult

CallerSteps ==
    \/ StdinTake \/ WaitStart \/ TryWait \/ MemoryLimit \/ HandleWait \/ InlineRunFn
    \/ RecvMessage \/ RecvTimeout \/ TryWait2 \/ Join \/ Decide

WorkerSteps == WorkerRunFn \/ WorkerSend

SpecOutput ==
    /\ InitOutput /\ [][NextOutput]_vars
    /\ WF_vars(ChildSteps) /\ WF_vars(ReaderSteps) /\ WF_vars(CallerSteps)
    /\ WF_vars(WorkerSteps)


----------------------------------------------------------------------------
(* The builder: Buffer::stdout_filter and Buffer::stderr_filter *)

FilterCall == <<"stdout_filter", "stderr_filter">>

\* `assert!(self.process.get().stdout.is_some(), "stdout is not piped");`
AssertSkipped(present) == TRUE
AssertPiped(present) == present

\* one call of the builder method for stream s, made before wait()
BuilderFilter(s) ==
    /\ pc = "build"
    /\ FilterCall[s] \notin {hist[i] : i \in DOMAIN hist}
    /\ hist' = Append(hist, FilterCall[s])
    /\ IF AssertPiped(rd.piped[s])
       THEN rd' = [rd EXCEPT !.filt[s] = TRUE] /\ UNCHANGED pc
       ELSE pc' = "panic" /\ UNCHANGED rd
    /\ UNCHANGED <<opt, stdin, eintr, win, proc, osStatus, recycled,
                   childStatus, result, wk, wkRes, chan, rxAlive, reader,
                   kills, faults, procAtTimeout, termLog>>

StdoutFilter == BuilderFilter(1)
StderrFilter == BuilderFilter(2)

\* the builder is consumed by wait()
BuilderWait ==
    /\ pc = "build"
    /\ pc' = "wait"
    /\ UNCHANGED <<opt, stdin, eintr, win, proc, osStatus, recycled,
                   childStatus, result, wk, wkRes, chan, rxAlive, reader,
                   kills, faults, procAtTimeout, hist, termLog, rd>>

\* SpecBuilder: controlled_with_output() on a child that writes at most one
\* byte to each stream, the builder calls, then wait() without time limit.
InitBuilder ==
    /\ opt \in {o \in ReadOptions : ~o.time_limit}
    /\ rd \in {r \in Outputs :
                /\ r.filt = <<FALSE, FALSE>>
                /\ \A s \in Streams :
                    r.total[s] <= IF r.piped[s] THEN 1 ELSE 0}
    /\ proc = "running"
    /\ osStatus = NoStatus
    /\ childStatus = NoStatus
    /\ recycled = FALSE
    /\ pc = "build"
    /\ result = Pending
    /\ wk = "none"
    /\ wkRes = Pending
    /\ chan = <<>>
    /\ rxAlive = FALSE
    /\ reader = "none"
    /\ kills = {}
    /\ faults = {}
    /\ procAtTimeout = "n/a"
    /\ hist = <<>>
    /\ termLog = NoCall
    /\ stdin = "none"
    /\ eintr = 0
    /\ win = WinOff

NextBuilder ==
    \/ StdoutFilter
    \/ StderrFilter
    \/ BuilderWait
    \/ NextRead

SpecBuilder == InitBuilder /\ [][NextBuilder]_vars

----------------------------------------------------------------------------
(* The handle-based platform: windows/mod.rs *)

STILL_ACTIVE == 259
EXIT_SUCCESS == 0
TerminateExitCode == 1      \* `TerminateProcess(self.0, 1)`

\* the exit codes a process ends with by itself: any DWORD, 259 included
WinExitCodes == ExitCodes \cup {STILL_ACTIVE}

\* what a failing call leaves in GetLastError
OsErrors == {"ERROR_ACCESS_DENIED", "ERROR_INVALID_HANDLE", "ERROR_OTHER"}

\* the memory limit asked for: none, one the job object rejects as too low,
\* one it takes
Limits == {"none", "low", "ok"}

NoWinCall == [op |-> "none", proc |-> "n/a", exitCode |-> 0, oserr |-> "n/a",
              codeRead |-> FALSE, ret |-> "n/a"]

WinProcess(limit, timeLimit) ==
    [platform |-> "windows", proc |-> "running", exitCode |-> 0,
     limit |-> limit, timeLimit |-> timeLimit, job |-> "none",
     pc |-> "try_wait", result |-> Pending, rejected |-> FALSE,
     fallback |-> "n/a", last |-> NoWinCall]

OnWindows == win.platform = "windows"

\* TerminateProcess: access is denied on a process that has exited; on a
\* running one the call fails with `fail` or ends it with exit code 1
TerminateProcessErr(fail) ==
    IF win.proc = "exited" THEN "ERROR_ACCESS_DENIED" ELSE fail

Terminated(w, err) ==
    IF err = "Ok"
    THEN [w EXCEPT !.proc = "exited", !.exitCode = TerminateExitCode]
    ELSE w

\* GetExitCodeProcess: STILL_ACTIVE for a running process
GetExitCode == IF win.proc = "running" THEN STILL_ACTIVE ELSE win.exitCode

\* RawHandle::is_not_running_error
IsNotRunningError(err, codeRead) ==
    err = "ERROR_ACCESS_DENIED" /\ codeRead /\ GetExitCode # STILL_ACTIVE

\* DuplicatedHandle::terminate: the map_err closure
WinTerminateUnmapped(err, codeRead) == err
WinTerminateMap(err, codeRead) ==
    IF IsNotRunningError(err, codeRead) \/ err = "ERROR_INVALID_HANDLE"
    THEN "NotFound" ELSE err

\* RawHandle::terminate_if_running: the or_else closure
WinIfRunningMap(err, codeRead) ==
    IF IsNotRunningError(err, codeRead) THEN "Ok" ELSE err

\* set_memory_limit when SetInformationJobObject has failed with `err`:
\* for ERROR_INVALID_PARAMETER what TerminateProcess returned, else `err`
RejectionReported(err, terminated) == err
RejectedOutcome(err, terminated) ==
    IF err = "ERROR_INVALID_PARAMETER" THEN terminated ELSE err

\* the process exits by itself
WinChildExit ==
    /\ OnWindows
    /\ win.proc = "running"
    /\ \E c \in WinExitCodes :
        win' = [win EXCEPT !.proc = "exited", !.exitCode = c]
    /\ UNCHANGED unixVars

\* run_wait: `self.try_wait()`, whose error is ignored
WinTryWait ==
    /\ OnWindows
    /\ win.pc = "try_wait"
    /\ \E fail \in BOOLEAN :
        win' = IF win.proc = "exited" /\ ~fail
               THEN [win EXCEPT !.result = OkSome(Exited(win.exitCode)),
                                !.pc = "done"]
               ELSE [win EXCEPT !.pc = "memory_limit"]
    /\ UNCHANGED unixVars

\* SharedHandle::set_memory_limit, and the `?` of run_wait on its result
WinSetMemoryLimit ==
    /\ OnWindows
    /\ win.pc = "memory_limit"
    /\ IF win.limit = "none"
       THEN win' = [win EXCEPT !.pc = "wait"]
       ELSE \E created \in BOOLEAN, fail \in {"Ok"} \cup OsErrors :
            IF ~created
            THEN win' = [win EXCEPT !.result = Err("ERROR_OTHER"),
                                    !.pc = "done"]
            ELSE LET set == IF win.limit = "low"
                            THEN "ERROR_INVALID_PARAMETER" ELSE "Ok"
                     terminated == TerminateProcessErr(fail)
                     ret == IF set = "Ok" THEN fail
                            ELSE RejectedOutcome(set, terminated)
                     w == [win EXCEPT !.job = "held",
                                      !.rejected = set # "Ok",
                                      !.fallback = IF set = "Ok" THEN "n/a"
                                                   ELSE terminated,
                                      !.pc = IF ret = "Ok" THEN "wait"
                                             ELSE "done",
                                      !.result = IF ret = "Ok" THEN @
                                                 ELSE Err(ret)] IN
                 win' = IF set = "Ok" THEN w ELSE Terminated(w, terminated)
    /\ UNCHANGED unixVars

\* SharedHandle::wait: WaitForSingleObject until the process has exited or
\* the time limit is used up
WinWait ==
    /\ OnWindows
    /\ win.pc = "wait"
    /\ \E fail \in BOOLEAN :
        \/ /\ fail
           /\ win' = [win EXCEPT !.result = Err("WAIT_FAILED"),
                                 !.pc = "done"]
        \/ /\ ~fail /\ win.proc = "exited"
           /\ win' = [win EXCEPT !.result = OkSome(Exited(win.exitCode)),
                                 !.pc = "done"]
        \/ /\ ~fail /\ win.proc = "running" /\ win.timeLimit
           /\ win' = [win EXCEPT !.result = OkNone, !.pc = "done"]
    /\ UNCHANGED unixVars

\* Terminator::terminate, at any time
WinTerminate ==
    /\ OnWindows
    /\ \E fail \in {"Ok"} \cup OsErrors, codeRead \in BOOLEAN :
        LET err == TerminateProcessErr(fail)
            ret == IF err = "Ok" THEN "Ok"
                   ELSE WinTerminateMap(err, codeRead) IN
        win' = [Terminated(win, err) EXCEPT
                   !.last = [op |-> "terminate", proc |-> win.proc,
                             exitCode |-> GetExitCode, oserr |-> err,
                             codeRead |-> codeRead, ret |-> ret]]
    /\ UNCHANGED unixVars

\* ChildExt::terminate_if_running, at any time
WinTerminateIfRunning ==
    /\ OnWindows
    /\ \E fail \in {"Ok"} \cup OsErrors, codeRead \in BOOLEAN :
        LET err == TerminateProcessErr(fail)
            ret == IF err = "Ok" THEN "Ok"
                   ELSE WinIfRunningMap(err, codeRead) IN
        win' = [Terminated(win, err) EXCEPT
                   !.last = [op |-> "terminate_if_running", proc |-> win.proc,
                             exitCode |-> GetExitCode, oserr |-> err,
                             codeRead |-> codeRead, ret |-> ret]]
    /\ UNCHANGED unixVars

\* SpecHandles: the handle operations of either platform. On Unix, wait()
\* of control.rs without limits and then the owner's calls; on the
\* handle-based platform run_wait of windows/mod.rs with the owner's calls
\* at any time.
HandleOptions ==
    {o \in Options :
        /\ o.version = "control" /\ ~o.time_limit /\ ~o.output
        /\ ~o.terminate_for_timeout /\ ~o.strict_errors /\ ~o.memory_limit}

InitHandles ==
    \/ Init /\ opt \in HandleOptions
    \/ /\ opt \in {o \in HandleOptions : o.exit_code = 0}
       /\ win \in {WinProcess(l, t) : l \in Limits, t \in BOOLEAN}
       /\ proc = "n/a"
       /\ osStatus = NoStatus
       /\ childStatus = NoStatus
       /\ recycled = FALSE
       /\ pc = "n/a"
       /\ result = Pending
       /\ wk = "none"
       /\ wkRes = Pending
       /\ chan = <<>>
       /\ rxAlive = FALSE
       /\ reader = "none"
       /\ kills = {}
       /\ faults = {}
       /\ procAtTimeout = "n/a"
       /\ hist = <<>>
       /\ termLog = NoCall
       /\ rd = RdIdle
       /\ stdin = "none"
       /\ eintr = 0

NextHandles ==
    \/ ChildExit
    \/ Recycle
    \/ StdinTake
    \/ WaitStart
    \/ TryWait
    \/ MemoryLimit
    \/ HandleWait
    \/ InlineRunFn
    \/ Decide
    \/ FinalTryWait
    \/ UserWait
    \/ Terminate
    \/ TerminateIfRunning
    \/ WinChildExit
    \/ WinTryWait
    \/ WinSetMemoryLimit
    \/ WinWait
    \/ WinTerminate
    \/ WinTerminateIfRunning

SpecHandles == InitHandles /\ [][NextHandles]_vars

----------------------------------------------------------------------------
(* Interrupted system calls *)

MaxInterrupts == 2

\* check_result! (unix/wait/mod.rs) around the status call of run_fn, and the
\* match on poll's result in read2: EINTR goes round the loop again, every
\* other error leaves it.
CheckResultBreaks(errno) == "break"
CheckResult(errno) == IF errno = "EINTR" THEN "continue" ELSE "break"

\* everything but the count of interruptions
programVars == <<opt, proc, osStatus, recycled, childStatus, pc, result, wk,
                 wkRes, chan, rxAlive, reader, kills, faults, procAtTimeout,
                 hist, termLog, rd, stdin, win>>

\* a signal arrives while run_fn is blocked in its status call, in the
\* worker or, without a time limit, in the caller
RunFnInterrupted ==
    /\ eintr < MaxInterrupts
    /\ proc = "running"
    /\ \/ wk = "run_fn" /\ (opt.unix_waitid \/ SlotHeld)
       \/ pc = "waitid"
    /\ eintr' = eintr + 1
    /\ IF CheckResult("EINTR") = "continue"
       THEN UNCHANGED programVars
       ELSE /\ faults' = faults \cup {"EINTR"}
            /\ IF pc = "waitid"
               THEN /\ result' = Err("EINTR")
                    /\ pc' = AfterPeek(Err("EINTR"))
                    /\ hist' = Append(hist, "peek")
                    /\ UNCHANGED <<wk, wkRes>>
               ELSE /\ wkRes' = Err("EINTR")
                    /\ wk' = "send"
                    /\ UNCHANGED <<pc, result, hist>>
            /\ UNCHANGED <<opt, proc, osStatus, recycled, childStatus, chan,
                           rxAlive, reader, kills, procAtTimeout, termLog,
                           rd, stdin, win>>

\* a signal arrives while read2 is blocked in poll
PollInterrupted ==
    /\ eintr < MaxInterrupts
    /\ reader = "running"
    /\ rd.phase = "poll"
    /\ eintr' = eintr + 1
    /\ IF CheckResult("EINTR") = "continue"
       THEN UNCHANGED programVars
       ELSE /\ rd' = Failed(rd)
            /\ reader' = "EINTR"
            /\ UNCHANGED <<opt, proc, osStatus, recycled, childStatus, pc,
                           result, wk, wkRes, chan, rxAlive, kills, faults,
                           procAtTimeout, hist, termLog, stdin, win>>

\* SpecEintr: output capture of one byte on each stream, with or without a
\* time limit, signals interrupting the blocked calls.
InitEintr ==
    InitWith(ReadOptions,
             {r \in Outputs :
                /\ r.piped = <<TRUE, TRUE>>
                /\ r.filt = <<FALSE, FALSE>>
                /\ r.total = <<1, 1>>})

NextEintr ==
    \/ NextOutput
    \/ RunFnInterrupted
    \/ PollInterrupted

SpecEintr == InitEintr /\ [][NextEintr]_vars

\* SpecStdin: the child's stdin is piped and the child reads it until end
\* of file before it exits with code 0 (test_stdin); every thread that can
\* take a step eventually does.
StdinOptions == {o \in Options : o.exit_code = 0 /\ ~o.strict_errors}

InitStdin ==
    /\ opt \in StdinOptions
    /\ proc = "running"
    /\ osStatus = NoStatus
    /\ childStatus = NoStatus
    /\ recycled = FALSE
    /\ pc = "wait"
    /\ result = Pending
    /\ wk = "none"
    /\ wkRes = Pending
    /\ chan = <<>>
    /\ rxAlive = FALSE
    /\ reader = "none"
    /\ kills = {}
    /\ faults = {}
    /\ procAtTimeout = "n/a"
    /\ hist = <<>>
    /\ termLog = NoCall
    /\ rd = RdIdle
    /\ stdin = "open"
    /\ eintr = 0
    /\ win = WinOff

WaitSteps ==
    \/ StdinTake \/ WaitStart \/ TryWait \/ MemoryLimit \/ HandleWait
    \/ InlineRunFn \/ RecvMessage \/ RecvTimeout \/ GuardDrop \/ TryWait2
    \/ Join \/ Decide \/ Kill \/ Reap \/ FinalTryWait

SpecStdin ==
    /\ InitStdin /\ [][Next]_vars
    /\ WF_vars(ChildExit)
    /\ WF_vars(WaitSteps)
    /\ WF_vars(WorkerSteps)
    /\ WF_vars(ReaderEof \/ ReaderError)

\* SpecTimed: wait() on a child that exits with code 0 or runs on, every
\* thread of wait() that can take a step eventually taking it; the child
\* and the owner of the Child are under no obligation.
TimedOptions ==
    {o \in Options : o.exit_code = 0 /\ ~o.strict_errors /\ ~o.memory_limit}

InitTimed == Init /\ opt \in TimedOptions

SpecTimed ==
    /\ InitTimed /\ [][Next]_vars
    /\ WF_vars(WaitSteps)
    /\ WF_vars(WorkerSteps)

----------------------------------------------------------------------------
(* SharedHandle::wait of the handle-based platform, with its time limits: *)
(* windows/mod.rs (TimeLimits) and windows.rs (remaining_time_limit)      *)

\* the width of a DWORD, scaled down; INFINITE is the DWORD of all ones
DwordBits == 3
DWORD_MAX == 2 ^ DwordBits - 1
INFINITE == DWORD_MAX

\* Option<Duration> in milliseconds: None, or a limit below, at or beyond
\* what a DWORD holds
NoLimit == -1
TimeLimitsMs == {NoLimit} \cup 0..(2 * DWORD_MAX + 1)

WaitSources == {"windows/mod.rs", "windows.rs"}

\* how late the scheduler may wake the waiting thread, in milliseconds
MaxLateness == 1

\* `.try_into().unwrap_or(DWORD::MAX)` on a u128
ToDword(ms) == IF ms > DWORD_MAX THEN DWORD_MAX ELSE ms

\* `time_limit.saturating_sub(self.start.elapsed())`
SaturatingSub(a, b) == IF a > b THEN a - b ELSE 0

\* TimeLimits::next: None ends the iteration
NoItem == 0
TimeLimitsItem(limit, elapsed) ==
    IF limit = NoLimit THEN INFINITE
    ELSE LET time_limit == ToDword(SaturatingSub(limit, elapsed)) IN
         IF time_limit = INFINITE THEN time_limit - 1 ELSE time_limit

\* windows.rs: `remaining_time_limit.try_into().unwrap_or(DWORD::MAX)`
\* under `while remaining_time_limit > 0`
RemainingItem(remaining) == ToDword(remaining)

\* windows.rs: `.map(|x| x.as_millis()).unwrap_or_else(|| INFINITE.into())`
RemainingAtStart(limit) == IF limit = NoLimit THEN INFINITE ELSE limit

HandleWaiting(source, limit, proc0) ==
    [platform |-> "windows_wait", source |-> source, limit |-> limit,
     proc |-> proc0, elapsed |-> 0, remaining |-> RemainingAtStart(limit),
     pc |-> "next", arg |-> NoItem, passed |-> {}, result |-> "pending"]

InHandleWait == win.platform = "windows_wait"

\* the process exits by itself
WaitedChildExit ==
    /\ InHandleWait
    /\ win.proc = "running"
    /\ win' = [win EXCEPT !.proc = "exited"]
    /\ UNCHANGED unixVars

\* what the loop passes to the native wait, else `Ok(None)`
Passes(w, item) ==
    IF item = NoItem
    THEN [w EXCEPT !.pc = "done", !.result = "timed_out"]
    ELSE [w EXCEPT !.pc = "native", !.arg = item,
                   !.passed = @ \cup {item}]

\* windows/mod.rs: `for time_limit in self.time_limits()`
TimeLimitsNext ==
    /\ InHandleWait
    /\ win.source = "windows/mod.rs" /\ win.pc = "next"
    /\ win' = Passes(win, TimeLimitsItem(win.limit, win.elapsed))
    /\ UNCHANGED unixVars

\* windows.rs: `while remaining_time_limit > 0`
RemainingNext ==
    /\ InHandleWait
    /\ win.source = "windows.rs" /\ win.pc = "next"
    /\ win' = Passes(win, IF win.remaining > 0
                          THEN RemainingItem(win.remaining) ELSE NoItem)
    /\ UNCHANGED unixVars

\* WaitForSingleObject(handle, arg): WAIT_OBJECT_0 once the process has
\* exited, WAIT_TIMEOUT when arg milliseconds have gone by, which never
\* happens with INFINITE, or WAIT_FAILED
WaitForSingleObject ==
    /\ InHandleWait
    /\ win.pc = "native"
    /\ \/ win' = [win EXCEPT !.pc = "done", !.result = "error"]
       \/ /\ win.proc = "exited"
          /\ win' = [win EXCEPT !.pc = "done", !.result = "status"]
       \/ /\ win.proc = "running" /\ win.arg # INFINITE
          /\ \E late \in 0..MaxLateness :
                win' = [win EXCEPT
                    !.pc = "next",
                    !.elapsed = @ + win.arg + late,
                    !.remaining = IF win.source = "windows.rs"
                                  THEN @ - win.arg ELSE @]
    /\ UNCHANGED unixVars

InitHandleWait ==
    /\ win \in {HandleWaiting(src, limit, p) :
                    src \in WaitSources, limit \in TimeLimitsMs,
                    p \in {"running", "exited"}}
    /\ opt \in {o \in HandleOptions : o.exit_code = 0}
    /\ proc = "n/a"
    /\ osStatus = NoStatus
    /\ childStatus = NoStatus
    /\ recycled = FALSE
    /\ pc = "n/a"
    /\ result = Pending
    /\ wk = "none"
    /\ wkRes = Pending
    /\ chan = <<>>
    /\ rxAlive = FALSE
    /\ reader = "none"
    /\ kills = {}
    /\ faults = {}
    /\ procAtTimeout = "n/a"
    /\ hist = <<>>
    /\ termLog = NoCall
    /\ rd = RdIdle
    /\ stdin = "none"
    /\ eintr = 0

NextHandleWait ==
    \/ WaitedChildExit
    \/ TimeLimitsNext
    \/ RemainingNext
    \/ WaitForSingleObject

SpecHandleWait == InitHandleWait /\ [][NextHandleWait]_vars

----------------------------------------------------------------------------
(* read2 of the handle-based platform, for one pipe: windows/read.rs *)

\* `Vec::with_capacity(32)`, scaled down
InitialCapacity == 2

\* the state of one AsyncPipe, of its pipe and of its overlapped read
\*   toWrite, avail, closed   the child's side and the kernel's buffer
\*   pc   "wait" | "result" | "read" | "drop" | "dropped" | "end"
\*   ret   what read2 is returning: "none" | "ok" | "err"
\*   reading   AsyncPipe::reading
\*   op   the overlapped read: "none" | "pending" | "done" | "cancelling"
\*        | "aborted"; opLen, the bytes it transferred; finishes, the
\*        calls of finish_read for it
\*   len, spare   buffer.len() and its spare capacity; overrun: set_len
\*        went beyond the capacity
\*   last   what finish_read returned: "more" | "eof" | "err"
\*   buf, ev   the allocation of the buffer and the boxed OVERLAPPED with
\*        its event: "live" | "leaked" | "freed"
\*   drop   what Drop did: reading, cancel and await "ok" | "err" | "skipped"
NoDrop == [reading |-> FALSE, cancel |-> "skipped", await |-> "skipped"]

AsyncPipeOf(filt, total) ==
    [platform |-> "windows_read", filt |-> filt,
     toWrite |-> total, avail |-> 0, closed |-> FALSE,
     pc |-> "wait", ret |-> "none", reading |-> FALSE,
     op |-> "none", opLen |-> 0, finishes |-> 0,
     len |-> 0, spare |-> InitialCapacity, overrun |-> FALSE,
     last |-> "more", buf |-> "live", ev |-> "live", drop |-> NoDrop]

InWinRead == win.platform = "windows_read"

\* the OS may still write into the buffer and the OVERLAPPED
InFlight(w) == w.op \in {"pending", "cancelling"}

\* the event of the pipe is signalled: created signalled, reset by ReadFile,
\* set when the read completes
Signalled(w) == ~InFlight(w)

\* the child writes a byte: it completes a pending read, else it waits in
\* the pipe
PipeWrite ==
    /\ InWinRead
    /\ win.toWrite > 0 /\ ~win.closed
    /\ IF win.op = "pending"
       THEN win' = [win EXCEPT !.toWrite = @ - 1, !.op = "done",
                               !.opLen = 1]
       ELSE /\ win.avail < PipeCapacity
            /\ win' = [win EXCEPT !.toWrite = @ - 1, !.avail = @ + 1]
    /\ UNCHANGED unixVars

\* the child closes its end: a pending read completes with no bytes
\* (ERROR_BROKEN_PIPE)
PipeClose ==
    /\ InWinRead
    /\ win.toWrite = 0 /\ ~win.closed
    /\ win' = [win EXCEPT !.closed = TRUE,
                          !.op = IF @ = "pending" THEN "done" ELSE @,
                          !.opLen = IF win.op = "pending" THEN 0 ELSE @]
    /\ UNCHANGED unixVars

WinFilterAnswers(w) ==
    IF w.filt THEN {"accept", "reject", "error"} ELSE {"accept"}

\* `self.buffer.reserve(1)`: at least one byte of spare capacity
ReservedNothing(spare, grown) == spare
Reserved(spare, grown) == IF spare = 0 THEN grown ELSE spare

\* AsyncPipe::finish_read
FinishRead(w, n, a, grown) ==
    LET index == w.len
        over == n > w.spare
        w1 == [w EXCEPT !.len = index + n,
                        !.spare = IF over THEN 0 ELSE @ - n,
                        !.overrun = @ \/ over,
                        !.finishes = @ + 1]
        w2 == [w1 EXCEPT !.spare = Reserved(@, grown)]
    IN IF n = 0 THEN [w1 EXCEPT !.reading = FALSE, !.last = "eof"]
       ELSE IF a = "error" THEN [w2 EXCEPT !.last = "err"]
       ELSE IF a = "reject"
       THEN [w2 EXCEPT !.len = index, !.spare = @ + n,
                       !.reading = FALSE, !.last = "more"]
       ELSE [w2 EXCEPT !.reading = FALSE, !.last = "more"]

\* where next_result and read2 go on after finish_read: the while loop of
\* next_result, `Ok(buffers)` after `drop(pipes)` at the end of the only
\* pipe, or `?`
AfterFinish(w) ==
    CASE w.last = "more" -> [w EXCEPT !.pc = "read"]
      [] w.last = "eof" -> [w EXCEPT !.pc = "drop", !.ret = "ok"]
      [] w.last = "err" -> [w EXCEPT !.pc = "drop", !.ret = "err"]

Raised(w) == [w EXCEPT !.pc = "drop", !.ret = "err"]

\* read2: WaitForMultipleObjects over the events
WaitForMultipleObjects ==
    /\ InWinRead
    /\ win.pc = "wait"
    /\ \/ win' = Raised(win)
       \/ /\ Signalled(win)
          /\ win' = [win EXCEPT !.pc = "result"]
    /\ UNCHANGED unixVars

\* next_result: `continue_if_idle!(self.result())`, GetOverlappedResult
\* with bWait on the read that was pending
OverlappedResult ==
    /\ InWinRead
    /\ win.pc = "result"
    /\ IF ~win.reading
       THEN win' = [win EXCEPT !.pc = "read"]
       ELSE \/ win' = Raised(win)
            \/ /\ win.op = "done"
               /\ \E a \in WinFilterAnswers(win),
                     grown \in 1..InitialCapacity :
                    win' = AfterFinish(FinishRead(win, win.opLen, a, grown))
    /\ UNCHANGED unixVars

\* next_result: `while let Some(read_length) = self.read_overlapped()?`,
\* one ReadFile, then finish_read or `self.reading = true`
ReadOverlapped ==
    /\ InWinRead
    /\ win.pc = "read"
    /\ \/ win' = Raised(win)
       \/ /\ win.avail > 0
          /\ LET n == IF win.avail > win.spare THEN win.spare
                      ELSE win.avail
                 w == [win EXCEPT !.avail = @ - n, !.op = "none",
                                  !.opLen = n, !.finishes = 0] IN
             \E a \in WinFilterAnswers(win), grown \in 1..InitialCapacity :
                win' = AfterFinish(FinishRead(w, n, a, grown))
       \/ /\ win.avail = 0 /\ win.closed
          /\ LET w == [win EXCEPT !.op = "none", !.opLen = 0,
                                  !.finishes = 0] IN
             win' = AfterFinish(FinishRead(w, 0, "accept", 1))
       \/ /\ win.avail = 0 /\ ~win.closed
          /\ win' = [win EXCEPT !.op = "pending", !.opLen = 0,
                                !.finishes = 0, !.reading = TRUE,
                                !.pc = "wait"]
    /\ UNCHANGED unixVars

\* `self.reading && (cancel_io().is_err() || self.result().is_err())`
LeaksUnlessCancelFails(reading, cancelled, awaited) ==
    reading /\ cancelled # "ok"
Leaks(reading, cancelled, awaited) ==
    reading /\ (cancelled # "ok" \/ awaited # "ok")

\* CancelIo: the pending read is on its way to ERROR_OPERATION_ABORTED
Cancelled(w) ==
    [w EXCEPT !.op = IF @ = "pending" THEN "cancelling" ELSE @]

\* <AsyncPipe as Drop>::drop
AsyncPipeDrop ==
    /\ InWinRead
    /\ win.pc = "drop"
    /\ \E cancel \in {"ok", "err"}, fail \in BOOLEAN,
          a \in WinFilterAnswers(win), grown \in 1..InitialCapacity :
        LET cancelled == IF win.reading THEN cancel ELSE "skipped"
            called == cancelled = "ok"
            w0 == IF called THEN Cancelled(win) ELSE win
            \* self.result(): GetOverlappedResult waits for the completion
            completes == called /\ ~fail
            w1 == IF completes /\ w0.op = "cancelling"
                  THEN [w0 EXCEPT !.op = "aborted"] ELSE w0
            finishes == completes /\ w1.op \in {"done", "none"}
            w2 == IF finishes THEN FinishRead(w1, w1.opLen, a, grown)
                  ELSE w1
            awaited == IF ~called THEN "skipped"
                       ELSE IF finishes /\ w2.last # "err" THEN "ok"
                       ELSE "err"
            leaks == Leaks(win.reading, cancelled, awaited) IN
        win' = [w2 EXCEPT
                   !.buf = IF leaks THEN "leaked" ELSE @,
                   !.ev = IF leaks THEN "leaked" ELSE "freed",
                   !.drop = [reading |-> win.reading,
                             cancel |-> cancelled, await |-> awaited],
                   !.pc = "dropped"]
    /\ UNCHANGED unixVars

\* read2 returns: `Ok(buffers)` hands the buffers to the caller, an error
\* drops them
Read2Return ==
    /\ InWinRead
    /\ win.pc = "dropped"
    /\ win' = [win EXCEPT
                  !.buf = IF win.ret = "err" /\ @ = "live" THEN "freed"
                          ELSE @,
                  !.pc = "end"]
    /\ UNCHANGED unixVars

InitWinRead ==
    /\ win \in {AsyncPipeOf(f, t) : f \in BOOLEAN, t \in 0..MaxWrite}
    /\ opt \in {o \in HandleOptions : o.exit_code = 0}
    /\ proc = "n/a"
    /\ osStatus = NoStatus
    /\ childStatus = NoStatus
    /\ recycled = FALSE
    /\ pc = "n/a"
    /\ result = Pending
    /\ wk = "none"
    /\ wkRes = Pending
    /\ chan = <<>>
    /\ rxAlive = FALSE
    /\ reader = "none"
    /\ kills = {}
    /\ faults = {}
    /\ procAtTimeout = "n/a"
    /\ hist = <<>>
    /\ termLog = NoCall
    /\ rd = RdIdle
    /\ stdin = "none"
    /\ eintr = 0

NextWinRead ==
    \/ PipeWrite
    \/ PipeClose
    \/ WaitForMultipleObjects
    \/ OverlappedResult
    \/ ReadOverlapped
    \/ AsyncPipeDrop
    \/ Read2Return

SpecWinRead == InitWinRead /\ [][NextWinRead]_vars

----------------------------------------------------------------------------
(* The status normaliser: unix/exit_status.rs *)

\* si_code of a SIGCHLD siginfo_t (libc)
CLD_EXITED == 1
CLD_KILLED == 2
CLD_DUMPED == 3
CLD_TRAPPED == 4
CLD_STOPPED == 5
CLD_CONTINUED == 6

MaxSiCode == 7
MaxStatusValue == 3

SiCodes == -1..MaxSiCode
StatusValues == 0..MaxStatusValue

\* ExitStatusKind::new
ExitStatusKindSix(raw) ==
    CASE raw = CLD_CONTINUED -> "Continued"
      [] raw = CLD_DUMPED -> "Dumped"
      [] raw = CLD_EXITED -> "Exited"
      [] raw = CLD_KILLED -> "Killed"
      [] raw = CLD_STOPPED -> "Stopped"
      [] OTHER -> "Uncategorized"
ExitStatusKind_new(raw) ==
    CASE raw = CLD_CONTINUED -> "Continued"
      [] raw = CLD_DUMPED -> "Dumped"
      [] raw = CLD_EXITED -> "Exited"
      [] raw = CLD_KILLED -> "Killed"
      [] raw = CLD_STOPPED -> "Stopped"
      [] raw = CLD_TRAPPED -> "Trapped"
      [] OTHER -> "Uncategorized"

\* ExitStatus::new(siginfo_t)
ExitStatus_new(info) ==
    [kind |-> ExitStatusKind_new(info.si_code), value |-> info.si_status]

\* std::process::ExitStatus over the raw status of wait(2)
WIFEXITED(w) == w % 128 = 0
WIFSIGNALED(w) == w % 128 \notin {0, 127}
WCOREDUMP(w) == (w \div 128) % 2 = 1
WIFSTOPPED(w) == w % 256 = 127
WIFCONTINUED(w) == w = 65535
HighByte(w) == (w \div 256) % 256

\* From<process::ExitStatus> for ExitStatus
ExitStatus_from(w) ==
    IF WIFEXITED(w) THEN Exited(HighByte(w))
    ELSE IF WIFSIGNALED(w)
         THEN IF WCOREDUMP(w) THEN Dumped(w % 128) ELSE Killed(w % 128)
    ELSE IF WIFSTOPPED(w) THEN Stopped(HighByte(w))
    ELSE IF WIFCONTINUED(w) THEN Continued(w)
    ELSE Uncategorized(w)

NoRaw == [si_code |-> 0, si_status |-> 0, wstatus |-> 0]

SigInfos ==
    {[NoRaw EXCEPT !.si_code = c, !.si_status = v] :
        c \in SiCodes, v \in StatusValues}

WaitStatuses ==
    {[NoRaw EXCEPT !.wstatus = hi * 256 + lo] :
        hi \in StatusValues \cup {255},
        lo \in StatusValues \cup {127, 255}
                \cup {128 + v : v \in StatusValues}}

\* waitid.rs: `ExitStatus::new(process_info.assume_init())`
NewStatus ==
    /\ pc = "raw" /\ opt.unix_waitid
    /\ childStatus' = ExitStatus_new(osStatus)
    /\ pc' = "status"
    /\ UNCHANGED <<opt, stdin, eintr, win, proc, osStatus, recycled, result,
                   wk, wkRes, chan, rxAlive, reader, kills, faults,
                   procAtTimeout, hist, termLog, rd>>

\* wait/common.rs: `break Ok(result.into())` on the status of Child::wait
FromStatus ==
    /\ pc = "raw" /\ ~opt.unix_waitid
    /\ childStatus' = ExitStatus_from(osStatus.wstatus)
    /\ pc' = "status"
    /\ UNCHANGED <<opt, stdin, eintr, win, proc, osStatus, recycled, result,
                   wk, wkRes, chan, rxAlive, reader, kills, faults,
                   procAtTimeout, hist, termLog, rd>>

InitStatus ==
    /\ opt \in [unix_waitid : BOOLEAN]
    /\ osStatus \in IF opt.unix_waitid THEN SigInfos ELSE WaitStatuses
    /\ childStatus = NoStatus
    /\ pc = "raw"
    /\ win = WinOff
    /\ proc = "n/a"
    /\ recycled = FALSE
    /\ result = Pending
    /\ wk = "none"
    /\ wkRes = Pending
    /\ chan = <<>>
    /\ rxAlive = FALSE
    /\ reader = "none"
    /\ kills = {}
    /\ faults = {}
    /\ procAtTimeout = "n/a"
    /\ hist = <<>>
    /\ termLog = NoCall
    /\ rd = RdIdle
    /\ stdin = "none"
    /\ eintr = 0

NextStatus == NewStatus \/ FromStatus

SpecStatus == InitStatus /\ [][NextStatus]_vars


----------------------------------------------------------------------------
(* The signal-based wait, step by step: unix/wait/common.rs                *)
(*                                                                          *)
(* Spec models the worker's closure as one step. Here the mutex, the slot  *)
(* holding the borrowed Child and the SIGCHLD subscription are explicit,   *)
(* and the worker and the caller interleave at every lock and call.        *)
(* `win` carries their state: slot (Some(process) or None), mutex (its     *)
(* holder), subscribed (Signals::new has run) and pending (a SIGCHLD       *)
(* arrived since the last signals.wait()).                                 *)

\* `Arc::new(Mutex::new(Some(process)))`, nothing subscribed yet
SlotOf == [platform |-> "unix", slot |-> TRUE, mutex |-> "free",
           subscribed |-> FALSE, pending |-> FALSE]

signalRest == <<opt, recycled, reader, kills, faults, procAtTimeout, hist,
                termLog, rd, stdin, eintr>>

\* The order of the closure's steps: subscribe, then loop { lock and check;
\* sleep until a signal }.
WorkerOrderCheckFirst(at, subscribed) ==
    CASE at = "spawn" -> "lock"
      [] at = "try_wait" -> IF subscribed THEN "sleep" ELSE "signals_new"
      [] at = "signals_new" -> "sleep"
WorkerOrder(at, subscribed) ==
    CASE at = "spawn" -> "signals_new"
      [] at = "signals_new" -> "lock"
      [] at = "try_wait" -> "sleep"

\* Mutex::lock blocks while the other thread holds the mutex
MayLockAnyway(holder) == TRUE
MayLock(holder) == holder = "free"

\* the kernel raises SIGCHLD when a child changes state; signal_hook
\* records it for every Signals instance that exists by then
Raise(w) == [w EXCEPT !.pending = w.subscribed]

\* the child exits by itself
SlotChildExit ==
    /\ proc = "running"
    /\ proc' = "zombie"
    /\ osStatus' = Exited(opt.exit_code)
    /\ win' = Raise(win)
    /\ UNCHANGED <<childStatus, pc, result, wk, wkRes, chan, rxAlive>>
    /\ UNCHANGED signalRest

\* another child of the program changes state: SIGCHLD names no process
OtherSigchld ==
    /\ pc # "spawn"
    /\ ~win.pending
    /\ win' = Raise(win)
    /\ UNCHANGED <<proc, osStatus, childStatus, pc, result, wk, wkRes, chan,
                   rxAlive>>
    /\ UNCHANGED signalRest

\* run_with_time_limit: thread::Builder::spawn, whose error `?` returns
SlotSpawn ==
    /\ pc = "spawn"
    /\ \E fail \in BOOLEAN :
        IF fail
        THEN /\ result' = Err("spawn")
             /\ pc' = "guard"
             /\ UNCHANGED <<wk, rxAlive>>
        ELSE /\ wk' = WorkerOrder("spawn", win.subscribed)
             /\ rxAlive' = TRUE
             /\ pc' = "recv"
             /\ UNCHANGED result
    /\ UNCHANGED <<proc, osStatus, childStatus, wkRes, chan, win>>
    /\ UNCHANGED signalRest

\* `Signals::new([SIGCHLD])?`
SignalsNew ==
    /\ wk = "signals_new"
    /\ \E fail \in BOOLEAN :
        IF fail
        THEN /\ wkRes' = Err("signals")
             /\ wk' = "send"
             /\ UNCHANGED win
        ELSE /\ win' = [win EXCEPT !.subscribed = TRUE]
             /\ wk' = WorkerOrder("signals_new", TRUE)
             /\ UNCHANGED wkRes
    /\ UNCHANGED <<proc, osStatus, childStatus, pc, result, chan, rxAlive>>
    /\ UNCHANGED signalRest

\* `MutexGuard::lock(&process, true)` in the worker
WorkerLock ==
    /\ wk = "lock"
    /\ MayLock(win.mutex)
    /\ win' = [win EXCEPT !.mutex = "worker"]
    /\ wk' = "deref"
    /\ UNCHANGED <<proc, osStatus, childStatus, pc, result, wkRes, chan,
                   rxAlive>>
    /\ UNCHANGED signalRest

\* `if let Some(process) = &mut *guard { .. } else { break Err(TimedOut) }`
WorkerDeref ==
    /\ wk = "deref"
    /\ IF win.slot
       THEN /\ wk' = "try_wait"
            /\ UNCHANGED <<wkRes, win>>
       ELSE /\ wkRes' = Err("TimedOut")
            /\ wk' = "send"
            /\ win' = [win EXCEPT !.mutex = "free"]
    /\ UNCHANGED <<proc, osStatus, childStatus, pc, result, chan, rxAlive>>
    /\ UNCHANGED signalRest

\* `process.try_wait()` through the reference found in the slot; the
\* guard, a temporary of the `if let`, is dropped at the end of it
WorkerTryWait ==
    /\ wk = "try_wait"
    /\ \E fail \in BOOLEAN :
        LET r == TryWaitRet(fail, "waitid") IN
        /\ proc' = IF Consumed(r) THEN "reaped" ELSE proc
        /\ childStatus' = IF Consumed(r) THEN r.status ELSE childStatus
        /\ IF r = OkNone
           THEN /\ wk' = WorkerOrder("try_wait", win.subscribed)
                /\ UNCHANGED wkRes
           ELSE /\ wk' = "send"
                /\ wkRes' = r
    /\ win' = [win EXCEPT !.mutex = "free"]
    /\ UNCHANGED <<osStatus, pc, result, chan, rxAlive>>
    /\ UNCHANGED signalRest

\* `while signals.wait().count() == 0 {}`: blocks until a SIGCHLD has been
\* recorded, and consumes it
SignalsWait ==
    /\ wk = "sleep"
    /\ win.pending
    /\ win' = [win EXCEPT !.pending = FALSE]
    /\ wk' = "lock"
    /\ UNCHANGED <<proc, osStatus, childStatus, pc, result, wkRes, chan,
                   rxAlive>>
    /\ UNCHANGED signalRest

\* recv_timeout returns the worker's message; `?.transpose()`
SlotRecvMessage ==
    /\ pc = "recv"
    /\ chan # <<>>
    /\ result' = chan[1]
    /\ chan' = <<>>
    /\ rxAlive' = FALSE
    /\ pc' = "guard"
    /\ UNCHANGED <<proc, osStatus, childStatus, wk, wkRes, win>>
    /\ UNCHANGED signalRest

\* recv_timeout gives up: `.ok()` is None, and wait() is to return Ok(None)
SlotRecvTimeout ==
    /\ pc = "recv"
    /\ chan = <<>>
    /\ result' = OkNone
    /\ rxAlive' = FALSE
    /\ pc' = "guard"
    /\ UNCHANGED <<proc, osStatus, childStatus, wk, wkRes, chan, win>>
    /\ UNCHANGED signalRest

\* `_guard` is dropped on every return: `MutexGuard::lock(&process, false)`
GuardLock ==
    /\ pc = "guard"
    /\ MayLock(win.mutex)
    /\ win' = [win EXCEPT !.mutex = "guard"]
    /\ pc' = "take"
    /\ UNCHANGED <<proc, osStatus, childStatus, result, wk, wkRes, chan,
                   rxAlive>>
    /\ UNCHANGED signalRest

\* `.take()` empties the slot, the lock is released and wait() returns
GuardTake ==
    /\ pc = "take"
    /\ win' = [win EXCEPT !.slot = FALSE, !.mutex = "free"]
    /\ pc' = "returned"
    /\ UNCHANGED <<proc, osStatus, childStatus, result, wk, wkRes, chan,
                   rxAlive>>
    /\ UNCHANGED signalRest

SignalOptions ==
    {o \in Options : /\ o.version = "buffer" /\ ~o.unix_waitid
                     /\ o.time_limit /\ ~o.output /\ ~o.memory_limit
                     /\ ~o.strict_errors /\ ~o.terminate_for_timeout}

\* run_wait found the child running a moment ago; it may have exited since
InitSignal ==
    /\ opt \in SignalOptions
    /\ \E start \in {"running", "zombie"} :
        /\ proc = start
        /\ osStatus = IF start = "running" THEN NoStatus
                      ELSE Exited(opt.exit_code)
    /\ childStatus = NoStatus
    /\ recycled = FALSE
    /\ pc = "spawn"
    /\ result = Pending
    /\ wk = "none"
    /\ wkRes = Pending
    /\ chan = <<>>
    /\ rxAlive = FALSE
    /\ reader = "none"
    /\ kills = {}
    /\ faults = {}
    /\ procAtTimeout = "n/a"
    /\ hist = <<>>
    /\ termLog = NoCall
    /\ rd = RdIdle
    /\ stdin = "none"
    /\ eintr = 0
    /\ win = SlotOf

SignalWorkerSteps ==
    SignalsNew \/ WorkerLock \/ WorkerDeref \/ WorkerTryWait \/ SignalsWait
        \/ WorkerSend

SignalCallerSteps == SlotRecvMessage \/ GuardLock \/ GuardTake

NextSignal ==
    \/ SlotChildExit
    \/ OtherSigchld
    \/ SlotSpawn
    \/ SignalsNew
    \/ WorkerLock
    \/ WorkerDeref
    \/ WorkerTryWait
    \/ SignalsWait
    \/ WorkerSend
    \/ SlotRecvMessage
    \/ SlotRecvTimeout
    \/ GuardLock
    \/ GuardTake

\* Both threads are scheduled; the time limit may be arbitrarily long, and
\* the child need never exit.
SpecSignal ==
    /\ InitSignal /\ [][NextSignal]_vars
    /\ WF_vars(SignalWorkerSteps)
    /\ WF_vars(SignalCallerSteps)


----------------------------------------------------------------------------
(* A child stopped by a signal: unix/wait/waitid.rs under control/mod.rs   *)
(*                                                                          *)
(* waitid is called with WEXITED | WNOWAIT | WSTOPPED, so it also returns  *)
(* for a child that a job-control signal has stopped; Child::try_wait is   *)
(* waitpid(WNOHANG) without WUNTRACED and sees such a child as running.    *)
(* proc takes the further value "stopped", for which WaitidReady holds and *)
(* TryWaitRet is Ok(None).                                                 *)

\* SIGSTOP, SIGTSTP, ... sent to the child by anyone; si_status is the signal
ChildStop ==
    /\ proc = "running"
    /\ pc # "wait"
    /\ \E v \in StatusValues \ {0} :
        osStatus' = Stopped(v)
    /\ proc' = "stopped"
    /\ UNCHANGED <<opt, stdin, eintr, win, recycled, childStatus, pc, result,
                   wk, wkRes, chan, rxAlive, reader, kills, faults,
                   procAtTimeout, hist, termLog, rd>>

\* SIGCONT: the child runs again, and WSTOPPED has nothing left to report
ChildCont ==
    /\ proc = "stopped"
    /\ proc' = "running"
    /\ osStatus' = NoStatus
    /\ UNCHANGED <<opt, stdin, eintr, win, recycled, childStatus, pc, result,
                   wk, wkRes, chan, rxAlive, reader, kills, faults,
                   procAtTimeout, hist, termLog, rd>>

StoppedOptions ==
    {o \in Options : /\ o.version = "buffer" /\ ~o.output
                     /\ ~o.memory_limit /\ ~o.terminate_for_timeout
                     /\ ~o.strict_errors}

InitStopped == Init /\ opt \in StoppedOptions /\ proc = "running"

NextStopped ==
    \/ ChildExit
    \/ ChildStop
    \/ ChildCont
    \/ StdinTake
    \/ WaitStart
    \/ TryWait
    \/ MemoryLimit
    \/ HandleWait
    \/ InlineRunFn
    \/ RecvMessage
    \/ RecvTimeout
    \/ GuardDrop
    \/ TryWait2
    \/ Decide
    \/ WorkerRunFn
    \/ WorkerSend

SpecStopped == InitStopped /\ [][NextStopped]_vars


----------------------------------------------------------------------------
(* Output capture when somebody else holds a write end of a pipe           *)
(*                                                                          *)
(* A pipe reaches end of file when its last write end is closed. The child *)
(* closes its own by exiting; a process that inherited the descriptor (a   *)
(* grandchild, a sibling spawned without CLOEXEC) may keep one open for as *)
(* long as it likes. `win.held` tells whether such a holder exists.        *)

HeldBy(h) == [platform |-> "unix", held |-> h]

\* read2, or the reader threads of control.rs, see end of file on every pipe
EofReached(p, held) == p # "running" /\ ~held

HeldReaderEof ==
    /\ EofReached(proc, win.held)
    /\ ReaderEof

\* the other holder closes its write end, or exits
HolderCloses ==
    /\ win.held
    /\ win' = HeldBy(FALSE)
    /\ UNCHANGED unixVars

HeldOptions ==
    {o \in Options : /\ o.version \in {"buffer", "control"} /\ o.time_limit
                     /\ o.output /\ o.exit_code = 0 /\ ~o.memory_limit}

\* the child runs when wait() is called
InitHeld ==
    /\ opt \in HeldOptions
    /\ proc = "running"
    /\ osStatus = NoStatus
    /\ childStatus = NoStatus
    /\ recycled = FALSE
    /\ pc = "wait"
    /\ result = Pending
    /\ wk = "none"
    /\ wkRes = Pending
    /\ chan = <<>>
    /\ rxAlive = FALSE
    /\ reader = "none"
    /\ kills = {}
    /\ faults = {}
    /\ procAtTimeout = "n/a"
    /\ hist = <<>>
    /\ termLog = NoCall
    /\ rd = RdIdle
    /\ stdin = "none"
    /\ eintr = 0
    /\ win \in {HeldBy(h) : h \in BOOLEAN}

NextHeld ==
    \/ ChildExit
    \/ Recycle
    \/ HolderCloses
    \/ StdinTake
    \/ WaitStart
    \/ TryWait
    \/ MemoryLimit
    \/ HandleWait
    \/ RecvMessage
    \/ RecvTimeout
    \/ GuardDrop
    \/ TryWait2
    \/ Join
    \/ Decide
    \/ Kill
    \/ Reap
    \/ FinalTryWait
    \/ WorkerRunFn
    \/ WorkerSend
    \/ HeldReaderEof
    \/ ReaderError

\* Every thread of wait() that can take a step takes it, the time limit
\* elapses, and a reader at end of file returns; the child, the other
\* holder and read errors are under no obligation.
SpecHeld ==
    /\ InitHeld /\ [][NextHeld]_vars
    /\ WF_vars(WaitSteps)
    /\ WF_vars(WorkerSteps)
    /\ WF_vars(HeldReaderEof)


----------------------------------------------------------------------------
(* The job object of a SharedHandle: windows/mod.rs                        *)
(*                                                                          *)
(* JobHandle(Option<RawHandle>) under a sequence of set_memory_limit calls *)
(* and the drop of the handle. Jobs are numbered as CreateJobObjectW makes *)
(* them; `released` holds those that were passed to CloseHandle.           *)

MaxCalls == 3       \* calls of set_memory_limit on one handle

NoJob == 0

\* SharedHandle::new: `job_handle: JobHandle(None)`
JobHandleOf ==
    [platform |-> "windows_job", slot |-> NoJob, made |-> 0,
     released |-> {}, calls |-> 0, pc |-> "idle", ret |-> "none",
     limit |-> "none", proc |-> "running", asserted |-> FALSE]

InJob == win.platform = "windows_job"

\* the jobs that exist and were never passed to CloseHandle
LiveJobs(w) == (1..w.made) \ w.released

\* set_memory_limit begins with `self.job_handle.close()?`
SetMemoryLimitUnclosed == "init"
SetMemoryLimitEntry == "close"

\* JobHandle::close: `self.0.take()`, then CloseHandle on what was there
JobClosed(w) ==
    [w EXCEPT !.slot = NoJob,
              !.released = IF w.slot = NoJob THEN @ ELSE @ \cup {w.slot}]

\* a call of set_memory_limit on the handle
SetMemoryLimitCall ==
    /\ InJob
    /\ win.pc = "idle"
    /\ win.calls < MaxCalls
    /\ \E l \in Limits \ {"none"} :
        win' = [win EXCEPT !.calls = @ + 1, !.pc = SetMemoryLimitEntry,
                              !.ret = "none", !.limit = l]
    /\ UNCHANGED unixVars

\* `self.job_handle.close()?`
JobClose ==
    /\ InJob
    /\ win.pc = "close"
    /\ \E fail \in BOOLEAN :
        win' = IF win.slot # NoJob /\ fail
               THEN [JobClosed(win) EXCEPT !.pc = "idle", !.ret = "err"]
               ELSE [JobClosed(win) EXCEPT !.pc = "init"]
    /\ UNCHANGED unixVars

\* JobHandle::init: `assert_matches!(&self.0, None)`, CreateJobObjectW and
\* `self.0.insert(..)`
JobInit ==
    /\ InJob
    /\ win.pc = "init"
    /\ \E fail \in BOOLEAN :
        win' = IF win.slot # NoJob
               THEN [win EXCEPT !.asserted = TRUE, !.pc = "panic"]
               ELSE IF fail
               THEN [win EXCEPT !.pc = "idle", !.ret = "err"]
               ELSE [win EXCEPT !.made = @ + 1, !.slot = win.made + 1,
                                !.pc = "set"]
    /\ UNCHANGED unixVars

\* SetInformationJobObject on the new job: a limit too low is answered
\* with ERROR_INVALID_PARAMETER, and the process is terminated instead.
\* Whatever happens, the job stays in the handle.
JobSetInformation ==
    /\ InJob
    /\ win.pc = "set"
    /\ \E fail \in BOOLEAN :
        win' = IF win.limit = "low"
               THEN [win EXCEPT
                        !.proc = IF fail THEN @ ELSE "exited",
                        !.ret = IF fail \/ win.proc = "exited" THEN "err"
                                ELSE "ok",
                        !.pc = "idle"]
               ELSE IF fail THEN [win EXCEPT !.ret = "err", !.pc = "idle"]
               ELSE [win EXCEPT !.pc = "assign"]
    /\ UNCHANGED unixVars

\* AssignProcessToJobObject, the value of set_memory_limit
JobAssign ==
    /\ InJob
    /\ win.pc = "assign"
    /\ \E r \in {"ok", "err"} :
        win' = [win EXCEPT !.pc = "idle", !.ret = r]
    /\ UNCHANGED unixVars

\* the SharedHandle goes out of scope: <JobHandle as Drop>::drop
JobHandleDrop ==
    /\ InJob
    /\ win.pc = "idle"
    /\ win' = [JobClosed(win) EXCEPT !.pc = "dropped"]
    /\ UNCHANGED unixVars

InitJob ==
    /\ win = JobHandleOf
    /\ opt \in {o \in HandleOptions : o.exit_code = 0}
    /\ proc = "n/a"
    /\ osStatus = NoStatus
    /\ childStatus = NoStatus
    /\ recycled = FALSE
    /\ pc = "n/a"
    /\ result = Pending
    /\ wk = "none"
    /\ wkRes = Pending
    /\ chan = <<>>
    /\ rxAlive = FALSE
    /\ reader = "none"
    /\ kills = {}
    /\ faults = {}
    /\ procAtTimeout = "n/a"
    /\ hist = <<>>
    /\ termLog = NoCall
    /\ rd = RdIdle
    /\ stdin = "none"
    /\ eintr = 0

NextJob ==
    \/ SetMemoryLimitCall
    \/ JobClose
    \/ JobInit
    \/ JobSetInformation
    \/ JobAssign
    \/ JobHandleDrop

SpecJob == InitJob /\ [][NextJob]_vars

----------------------------------------------------------------------------
(* Properties of wait() *)

\* wait() has returned and its owner has not touched the Child since
Returned == pc = "done"

\* the time limit elapsed while the process was still running
TimedOutRunning == procAtTimeout = "running"

TheExitStatus == Exited(opt.exit_code)

C3_TimeoutLeavesProcessAlone ==
    (Returned /\ TimedOutRunning /\ ~opt.terminate_for_timeout
        /\ opt.version = "buffer" /\ faults = {})
    => /\ result = OkNone
       /\ kills = {}
       /\ osStatus # Killed(SIGKILL)
       /\ proc # "reaped" /\ childStatus = NoStatus

\* C3 amended: ... wait() sends no kill and the process runs on until it
\* exits by itself. With control/mod.rs over waitid the result is Ok(None)
\* and the process is not reaped. A process that exits by itself after the
\* limit elapsed and before wait() returns may be reaped by wait(): by the
\* worker of the signal-based wait, or by the last try_wait of control.rs
\* and timeout.rs, whose failure is returned in place of Ok(None) (by
\* timeout.rs under strict_errors only).
C3_TimeoutNeverEndsProcess ==
    (Returned /\ TimedOutRunning /\ ~opt.terminate_for_timeout)
    => /\ kills = {}
       /\ osStatus \in {NoStatus, TheExitStatus}
       /\ proc = "running" <=> osStatus = NoStatus
       /\ proc = "reaped" <=> childStatus = TheExitStatus
       /\ proc = "reaped" => (opt.version # "buffer" \/ ~opt.unix_waitid)
       /\ result \in {OkNone, Err("final_try_wait")}
       /\ result # OkNone => (opt.version # "buffer" /\ proc # "reaped")

C3_Witness ==
    /\ Returned /\ TimedOutRunning /\ ~opt.terminate_for_timeout
    /\ opt.version = "buffer" /\ opt.unix_waitid
    /\ proc = "running"
    /\ result = OkNone
    /\ wk = "run_fn"

\* C4: every SIGKILL wait() sends is delivered to the controlled process
\* itself, running or zombie: never to an identifier whose process has been
\* reaped, which an unrelated process may hold by then.
C4_KillOnlyUnreaped ==
    /\ kills \subseteq {"running", "zombie"}
    /\ (pc = "kill" /\ proc = "reaped") => childStatus # NoStatus

\* the worker has seen the exit, the caller timed out all the same, and the
\* kill went to the zombie that still held the identifier
C4_Witness ==
    /\ kills = {"zombie"}
    /\ procAtTimeout = "zombie"
    /\ wk = "exit"
    /\ IsOkSome(wkRes)

\* positions of an event in the history of one wait() call
At(e) == {i \in DOMAIN hist : hist[i] = e}

Before(a, b) == \A i \in At(a), j \in At(b) : i < j

\* C5 as stated: in every execution the peek ends, then the decision
\* whether to terminate is taken, then the consuming reap is performed: no
\* consuming reap precedes the decision, no kill precedes the end of the
\* peek. Stated for the waitid back-end and the executions in which no call
\* fails, which makes it weaker than the claim.
C5_PeekDecideReap ==
    (opt.unix_waitid /\ faults = {})
    => (Before("peek", "decide") /\ Before("decide", "reap")
        /\ Before("peek", "kill"))

\* C5 amended: the decision whether to terminate is taken after the
\* time-limited wait has ended, a kill is sent only after the decision, and
\* the reap that follows a kill comes after it: no kill is ever sent after a
\* consuming reap. When the status is there in time the consuming reap
\* (try_wait at the start of run_wait, or in control/mod.rs right after the
\* peek) comes before the decision, and then no kill is sent.
C5_KillBetweenDecisionAndReap ==
    /\ Before("peek", "decide")
    /\ Before("decide", "kill")
    /\ Before("kill", "reap")
    /\ Cardinality(At("decide")) <= 1
    /\ Cardinality(At("reap")) <= 1
    /\ ~Before("decide", "reap") => At("kill") = {}

\* peek timed out, decision, kill, reap: the order the claim describes
C5_Witness ==
    /\ opt.unix_waitid
    /\ hist = <<"peek", "decide", "kill", "reap">>

\* the other order: peek, consuming reap, decision
C5_ReapFirst ==
    /\ opt.unix_waitid
    /\ hist = <<"peek", "reap", "decide">>

\* C6 as stated: Terminator::terminate for a process that has exited and
\* been reaped returns NotFound and its kill reaches no process, also when
\* the identifier has been given to another process.
C6_TerminateReapedIsNotFound ==
    termLog.proc = "reaped"
    => (termLog.result = "NotFound" /\ termLog.target = "none")

\* C6 amended: ... returns NotFound and reaches no process as long as no
\* process holds the identifier; once the identifier has been given to
\* another process the kill is sent to that process: terminate returns Ok(())
\* and that process is killed, or the error of kill(2) when it may not be
\* signalled.
C6_TerminateReapedFollowsIdentifier ==
    termLog.proc = "reaped"
    => /\ ~termLog.recycled
            => (termLog.result = "NotFound" /\ termLog.target = "none")
       /\ termLog.recycled
            => \/ termLog.result = "Ok" /\ termLog.target = "other"
               \/ termLog.result = "EPERM" /\ termLog.target = "none"

C6_Witness ==
    /\ termLog.proc = "reaped"
    /\ ~termLog.recycled
    /\ termLog.result = "NotFound"
    /\ IsOkSome(result)

C6_OtherProcessKilled ==
    /\ termLog.proc = "reaped"
    /\ termLog.recycled
    /\ termLog.target = "other"

\* C10: without strict_errors, after a timeout the value wait() returns is
\* Ok(None) whether or not the kill or the reap that follows it failed.
\* (In control.rs the try_wait that ends wait() is a call of its own: its
\* failure is returned with or without strict_errors.)
C10_CleanupFailureSuppressed ==
    (pc \in {"done", "final_try_wait"} /\ ~opt.strict_errors
        /\ procAtTimeout # "n/a" /\ "final_try_wait" \notin faults)
    => result = OkNone

C10_Witness ==
    /\ Returned /\ ~opt.strict_errors
    /\ opt.terminate_for_timeout
    /\ TimedOutRunning
    /\ "kill" \in faults
    /\ proc = "running"
    /\ result = OkNone

C10_ReapFailed ==
    /\ Returned /\ ~opt.strict_errors
    /\ "reap" \in faults
    /\ result = OkNone

----------------------------------------------------------------------------
(* Properties of read2 *)

\* the bytes 1..n, as the child writes them
Bytes(n) == [k \in 1..n |-> k]

\* wait() returned an Output: both buffers hold all that was written
OutputComplete ==
    (pc = "done" /\ IsOkSome(result))
    => /\ reader = "ok"
       /\ \A s \in Streams : rd.buf[s] = Bytes(rd.total[s])

\* read2 is in poll and the pipe the child is blocked on is not polled
BlockedUnpolled ==
    /\ reader = "running" /\ rd.phase = "poll"
    /\ \E s \in Streams :
        /\ Blocked(s)
        /\ ~\E i \in 0..1 : InWindow(i) /\ StreamAt(rd, i) = s

\* C7: whatever the interleaving of the child's writes to stdout and
\* stderr, each longer than a pipe holds, wait() returns, the Output it
\* returns holds on each stream exactly the bytes written to it, and read2
\* is never in poll on one pipe only while the child is blocked on the other.
C7_LargeOutputCaptured ==
    /\ [](OutputComplete /\ ~BlockedUnpolled)
    /\ <>(pc = "done")

\* the child was blocked on a full pipe, and the Output is complete
C7_Witness ==
    /\ pc = "done" /\ IsOkSome(result)
    /\ \A s \in Streams :
        rd.total[s] > PipeCapacity /\ rd.buf[s] = Bytes(rd.total[s])

\* the child blocked on stderr's pipe while read2 is reading stdout's
C7_BlockedWhileReading ==
    /\ Blocked(2)
    /\ rd.phase = "read" /\ StreamAt(rd, rd.i) = 1

\* bytes read_to_end has taken from a stream's pipe
BytesRead(s) == rd.written[s] - Len(rd.pipe[s])

\* what the next_result in progress has added so far and not yet filtered
Unfiltered(s) ==
    IF rd.phase = "read" /\ StreamAt(rd, rd.i) = s
    THEN Chunk(rd.buf[s], rd.index) ELSE <<>>

\* C8: as long as read2 has not failed, each buffer is the concatenation,
\* in read order, of the chunks its filter accepted (plus what is being read
\* in the chunk under way), and the chunks handed to the filter, put end to
\* end, are exactly the bytes read so far, each once and in order; when
\* read2 returns, that is all the child wrote.
C8_BufferIsAcceptedChunks ==
    /\ rd.phase # "err"
        => \A s \in Streams :
            /\ rd.buf[s] = rd.acc[s] \o Unfiltered(s)
            /\ rd.seen[s] \o Unfiltered(s) = Bytes(BytesRead(s))
    /\ rd.phase = "done"
        => \A s \in Streams :
            /\ rd.buf[s] = rd.acc[s]
            /\ rd.seen[s] = Bytes(rd.written[s])

\* a stream of which one chunk was rejected and a later one accepted
C8_Witness ==
    /\ rd.phase = "done"
    /\ \E s \in Streams :
        /\ rd.seen[s] = <<1, 2>>
        /\ rd.buf[s] = <<2>>

C8_AllRejected ==
    /\ rd.phase = "done"
    /\ rd.seen[1] = Bytes(MaxWrite) /\ rd.buf[1] = <<>>
    /\ rd.buf[2] = Bytes(MaxWrite)

\* C9: once a filter has returned an error read2 has returned it: nothing
\* is read from either pipe any more, and a wait() that obtained the exit
\* status returns that error.
C9_FilterErrorReturned ==
    reader = "filter"
    => /\ rd.phase = "err"
       /\ \A s \in Streams : Len(rd.seen[s]) = BytesRead(s)
       /\ (pc = "done" /\ childStatus # NoStatus) => result = Err("filter")

\* the filter of stdout failed while bytes of stderr were left unread, and
\* wait() returned the error
C9_Witness ==
    /\ reader = "filter"
    /\ pc = "done" /\ result = Err("filter")
    /\ rd.pipe[2] # <<>>
    /\ rd.seen[1] # <<>>


\* the steps of wait() after the primary result: the decision to terminate,
\* the kill, the reap and the last try_wait
CleanupSteps == {"decide", "kill", "reap", "final_try_wait"}

\* C11: with strict_errors, the first error of the termination or of the reap
\* that follows a timeout replaces a primary result that is Ok, and a primary
\* result that is an error is replaced by nothing: wait() returns it.
C11_FirstCleanupErrorReplacesOk ==
    [][pc' # pc =>
        /\ (pc \in CleanupSteps /\ ~IsOk(result)) => result' = result
        /\ (opt.strict_errors /\ pc \in {"kill", "reap"} /\ IsOk(result))
            => IF faults' # faults
               THEN result'.tag = "err" /\ result'.error \in faults' \ faults
               ELSE result' = result]_vars

C11_Witness ==
    /\ Returned /\ opt.strict_errors /\ opt.terminate_for_timeout
    /\ procAtTimeout = "running"
    /\ {"kill", "reap"} \subseteq faults
    /\ result = Err("kill")

\* a primary error outlives a failed termination
C11_PrimaryErrorKept ==
    /\ Returned /\ opt.strict_errors
    /\ result = Err("memory_limit")
    /\ "kill" \in faults


\* C12: wait() drops the child's stdin handle before every other step, so a
\* child that reads its piped stdin until end of file exits, wait() returns,
\* and it returns Ok(Some(status)) unless the time limit elapsed first or a
\* call failed.
C12_StdinDroppedFirst ==
    /\ [](pc # "wait" => stdin = "closed")
    /\ <>(pc = "done")
    /\ []((Returned /\ procAtTimeout = "n/a" /\ faults = {})
            => result = OkSome(Exited(0)))

C12_Witness ==
    /\ Returned /\ stdin = "closed"
    /\ ~opt.time_limit /\ opt.memory_limit /\ opt.output
    /\ result = OkSome(Exited(0))


\* the errors a reader thread ends with
ReaderErrors == {"read", "filter"}

\* C13: with output capture the reader is started before the time-bounded
\* wait and runs beside it; wait() joins the reader only when the wait
\* produced a status; after a timeout it does not join, and what the reader
\* ended with is not in the result.
C13_ReaderJoinedOnlyWithStatus ==
    /\ (opt.output /\ (wk # "none" \/ At("peek") # {} \/ pc = "try_wait"))
        => reader # "none"
    /\ pc = "join" => (IsOkSome(result) /\ procAtTimeout = "n/a")
    /\ (procAtTimeout # "n/a" /\ result.tag = "err")
        => result.error \notin ReaderErrors

C13_Witness ==
    /\ Returned /\ opt.output
    /\ procAtTimeout = "running"
    /\ reader = "read"
    /\ result = OkNone


\* the time limit has elapsed in the bounded wait
TimedOut == procAtTimeout # "n/a"

\* C14: when the time limit elapses first the bounded wait returns its
\* timeout (Ok(None)) and leaves the worker where it is; once the process
\* has exited the worker ends, its send included; what it sent is received
\* by no one.
C14_WorkerAbandoned ==
    /\ [][(pc = "recv" /\ pc' # "recv" /\ chan = <<>>)
            => (result' = OkNone /\ wk' = wk /\ wkRes' = wkRes)]_vars
    /\ [](TimedOut => (chan = <<>> /\ pc # "recv"))
    /\ ((TimedOut /\ proc # "running") ~> wk = "exit")

C14_Witness ==
    /\ TimedOut /\ procAtTimeout = "running"
    /\ pc = "done" /\ result = OkNone
    /\ wk = "exit" /\ IsOkSome(wkRes)


\* C15: a blocking status wait or readiness poll that a signal interrupts
\* is called again: the interruption changes nothing of the program's state,
\* whatever the number of interruptions before it, so the outcome is the one
\* of the uninterrupted run; EINTR is never the error of the wait, of the
\* worker or of the reader.
C15_InterruptionsRetried ==
    /\ [][eintr' # eintr => UNCHANGED programVars]_vars
    /\ [](/\ result.error # "EINTR"
          /\ wkRes.error # "EINTR"
          /\ reader # "EINTR"
          /\ "EINTR" \notin faults)

C15_Witness ==
    /\ Returned /\ eintr = MaxInterrupts
    /\ IsOkSome(result) /\ reader = "ok"
    /\ faults = {}


\* C16: if applying the memory limit fails, the time-bounded wait is never
\* started, no worker is spawned and no status is peeked, and wait() returns
\* the error of the memory limit.
C16_MemoryLimitErrorSkipsWait ==
    "memory_limit" \in faults
    => /\ wk = "none" /\ wkRes = Pending /\ ~rxAlive /\ chan = <<>>
       /\ At("peek") = {}
       /\ pc \notin {"handle_wait", "waitid", "recv", "guard", "try_wait2"}
       /\ result = Err("memory_limit")

C16_Witness ==
    /\ Returned /\ "memory_limit" \in faults
    /\ opt.time_limit /\ opt.terminate_for_timeout /\ opt.strict_errors
    /\ "reap" \in faults
    /\ result = Err("memory_limit")


C17_FallbackFailed ==
    /\ OnWindows /\ win.rejected
    /\ win.fallback = "ERROR_ACCESS_DENIED"
    /\ win.exitCode = EXIT_SUCCESS
    /\ win.result = Err("ERROR_ACCESS_DENIED")


\* C18: Terminator::terminate returns NotFound for the failures that mean
\* the target no longer exists, ESRCH on Unix, on the handle-based platform
\* ERROR_INVALID_HANDLE, or ERROR_ACCESS_DENIED with an exit code that was
\* read and is not STILL_ACTIVE; every other error of the operating system
\* is returned as it is.
C18_TerminateMapsNotFound ==
    /\ termLog.op = "terminate"
        => termLog.result = IF termLog.errno = "ESRCH" THEN "NotFound"
                            ELSE termLog.errno
    /\ (OnWindows /\ win.last.op = "terminate")
        => win.last.ret =
            IF \/ win.last.oserr = "ERROR_INVALID_HANDLE"
               \/ /\ win.last.oserr = "ERROR_ACCESS_DENIED"
                  /\ win.last.codeRead
                  /\ win.last.exitCode # STILL_ACTIVE
            THEN "NotFound"
            ELSE win.last.oserr

C18_Witness ==
    /\ OnWindows /\ win.last.op = "terminate"
    /\ win.last.proc = "exited"
    /\ win.last.oserr = "ERROR_ACCESS_DENIED"
    /\ win.last.ret = "NotFound"

C18_UnixNotFound ==
    /\ termLog.op = "terminate"
    /\ termLog.errno = "ESRCH"
    /\ termLog.result = "NotFound"

\* C19 as stated, for the handle-based platform and a process that has
\* exited, the exit code read without error: terminate_if_running returns
\* Ok(()) whenever the process is no longer running.
C19_NotRunningIsOk ==
    (/\ OnWindows /\ win.last.op = "terminate_if_running"
     /\ win.last.proc = "exited"
     /\ win.last.oserr = "ERROR_ACCESS_DENIED"
     /\ win.last.codeRead)
    => win.last.ret = "Ok"


\* the builder method for stream s has been called
Called(s) == At(FilterCall[s]) # {}

\* C20: stdout_filter (stderr_filter) on a session whose stdout (stderr) is
\* not piped panics in the builder call: wait() is never entered, so there is
\* no result, Err or other; on a piped stream the filter is attached.
C20_FilterOnUnpipedPanics ==
    \A s \in Streams :
        /\ (Called(s) /\ ~rd.piped[s])
            => /\ pc = "panic"
               /\ result = Pending /\ reader = "none" /\ stdin = "none"
               /\ rd.phase = "new"
        /\ (Called(s) /\ rd.piped[s] /\ rd.phase = "new") => rd.filt[s]
        /\ rd.filt[s] => rd.piped[s]

C20_Witness ==
    /\ Called(1) /\ Called(2)
    /\ rd.piped = <<TRUE, FALSE>>
    /\ rd.filt = <<TRUE, FALSE>>
    /\ pc = "panic"


\* the steps of run_wait that follow a try_wait without a status
PastTryWait == {"memory_limit", "handle_wait", "waitid", "recv", "guard",
                "try_wait2"}

\* C21: if the process has exited when wait() is called, then for every
\* time limit, with and without output capture, wait() has its status from
\* try_wait: it never reaches the memory limit or the bounded wait, and when
\* no call fails it returns Ok(Some(status)) with the real exit code.
C21_ExitedBeforeWait ==
    (proc # "running")
    => /\ []("try_wait" \notin faults
              => (pc \notin PastTryWait /\ wk = "none" /\ At("peek") = {}))
       /\ []((Returned /\ faults = {})
              => /\ result = OkSome(TheExitStatus)
                 /\ code(result.status) = <<opt.exit_code>>)

C21_Witness ==
    /\ Returned /\ faults = {}
    /\ opt.time_limit /\ opt.memory_limit /\ opt.output
    /\ opt.exit_code = 1
    /\ wk = "none" /\ hist = <<"decide">> /\ proc = "reaped"
    /\ result = OkSome(Exited(1))


\* C24: with no time limit, wait() runs the blocking wait on the caller's
\* thread: no worker is spawned, nothing is received from a channel, and
\* the call returns Ok(Some(status)) or an error, never Ok(None).
C24_NoLimitWaitsInline ==
    ~opt.time_limit =>
        /\ wk = "none" /\ ~rxAlive /\ chan = <<>>
        /\ pc # "recv"
        /\ Returned => (IsOkSome(result) \/ result.tag = "err")

C24_Witness ==
    /\ ~opt.time_limit /\ Returned
    /\ opt.unix_waitid /\ At("peek") # {}
    /\ wk = "none"
    /\ result = OkSome(TheExitStatus)


\* wait() is about to call kill() on the child
Terminating == pc = "kill"

\* C25, as stated: wait() calls the terminate primitive only if
\* terminate_for_timeout was requested and the bounded wait timed out.
C25_KillOnlyAfterTimedOut ==
    Terminating => (opt.terminate_for_timeout /\ result = OkNone)

\* C25: wait() calls the terminate primitive only if terminate_for_timeout
\* was requested and the bounded wait did not complete with a status: it
\* timed out or it failed. After Ok(Some(status)) no kill is ever sent.
C25_KillOnlyWithoutStatus ==
    /\ Terminating => (opt.terminate_for_timeout /\ ~IsOkSome(result))
    /\ At("kill") # {} => (opt.terminate_for_timeout /\ ~IsOkSome(result))
    /\ (Returned /\ IsOkSome(result)) => kills = {}

C25_Witness ==
    /\ Terminating
    /\ opt.terminate_for_timeout
    /\ result.tag = "err" /\ faults = {"waitid"}
    /\ proc = "running"


\* the step with which wait() returns
Returns == pc # "done" /\ pc' = "done"

\* the final try_wait failed in this step
FinalCheckFailed == "final_try_wait" \in faults' \ faults

\* what a failing try_wait returns: the error of waitpid, ECHILD when the
\* child has been reaped behind the back of its Child
FinalCheckErrors == {Err("final_try_wait"), Err("ECHILD")}

\* the final try_wait reaps a child that has exited and is not yet reaped
PicksUpExit ==
    (proc = "zombie" /\ childStatus = NoStatus /\ faults' = faults)
        => (proc' = "reaped" /\ childStatus' = osStatus)

\* C26, as stated: wait() returns out of a final non-blocking status check,
\* made whatever the result so far, and without strict_errors the check
\* does not change the result.
C26_FinalCheckAlways ==
    [][Returns =>
        /\ pc = "final_try_wait"
        /\ PicksUpExit
        /\ ~opt.strict_errors => result' = result]_vars

\* C26: timeout.rs ends wait() with a try_wait whatever the result so far,
\* and its error replaces an Ok result under strict_errors only. control.rs
\* calls that try_wait only when the result so far is Ok, and its error
\* then replaces the result with or without strict_errors. Buffer::wait of
\* control/mod.rs returns without a final status check.
C26_FinalCheckByGeneration ==
    [][Returns =>
        CASE opt.version = "timeout" ->
                /\ pc = "final_try_wait"
                /\ PicksUpExit
                /\ result' # result
                    => /\ opt.strict_errors /\ IsOk(result)
                       /\ result' \in FinalCheckErrors
                /\ (opt.strict_errors /\ IsOk(result) /\ FinalCheckFailed)
                    => result' = Err("final_try_wait")
          [] opt.version = "control" ->
                /\ pc = "final_try_wait"
                /\ IsOk(result) => PicksUpExit
                /\ result' # result
                    => (IsOk(result) /\ result' \in FinalCheckErrors)
                /\ (IsOk(result) /\ FinalCheckFailed)
                    => result' = Err("final_try_wait")
                /\ ~IsOk(result)
                    => UNCHANGED <<result, faults, proc, childStatus>>
          [] opt.version = "buffer" ->
                /\ pc \in {"decide", "kill", "reap"}
                /\ "final_try_wait" \notin faults']_vars

C26_Witness ==
    /\ Returned
    /\ opt.version = "timeout" /\ ~opt.strict_errors
    /\ opt.terminate_for_timeout
    /\ "final_try_wait" \in faults
    /\ result = OkNone
    /\ At("kill") # {}


\* the streams of the poll window
Window == {StreamAt(rd, j) : j \in {k \in 0..1 : InWindow(k)}}

\* the streams that are piped and whose end read2 has not seen
Unfinished == {s \in Streams : rd.piped[s] /\ ~rd.eof[s]}

InLoop == rd.phase \in {"poll", "read"}

\* C27: each time read2 polls, the window [start, start + length) holds
\* exactly the piped streams that have not reached their end; a stream that
\* has is never polled or read again; length only decreases once set; and
\* read2 leaves the loop exactly when every piped stream has reached its
\* end, be it one after the other or both in the same pass.
C27_WindowIsUnfinished ==
    /\ [](/\ rd.phase = "poll" => Window = Unfinished
          /\ rd.phase = "read"
                => (StreamAt(rd, rd.i) \in Unfinished /\ rd.i < rd.last)
          /\ InLoop => (Unfinished # {} /\ rd.length = Cardinality(Unfinished))
          /\ rd.phase = "done" => (Unfinished = {} /\ rd.length = 0))
    /\ [][rd.phase # "new" => rd'.length <= rd.length]_vars

\* both streams reached their end in the pass that followed one poll
C27_Witness ==
    /\ rd.phase = "done"
    /\ rd.piped = <<TRUE, TRUE>> /\ rd.eof = <<TRUE, TRUE>>
    /\ rd.last = 2 /\ rd.start = 0 /\ rd.length = 0
    /\ rd.buf[1] # <<>> /\ rd.buf[2] # <<>>

IsIncreasing(q) == \A j, k \in DOMAIN q : j < k => q[j] < q[k]

Range(q) == {q[j] : j \in DOMAIN q}

\* C28: at every point of read2 each buffer holds bytes of its own stream
\* in the order in which they were read, each at most once: a selection of
\* the bytes read so far that keeps their order, whatever the order in which
\* the two streams become ready.
C28_BufferInReadOrder ==
    rd.phase # "err" =>
        \A s \in Streams :
            /\ IsIncreasing(rd.buf[s])
            /\ Range(rd.buf[s]) \subseteq 1..BytesRead(s)
            /\ ~rd.filt[s] => rd.buf[s] = Bytes(BytesRead(s))

\* stderr was read to its end between two reads of stdout
C28_Witness ==
    /\ rd.phase \in {"poll", "read"}
    /\ rd.buf[1] = <<1>> /\ rd.pipe[1] = <<2>>
    /\ rd.buf[2] = <<1, 2>> /\ rd.eof[2]

----------------------------------------------------------------------------
(* Properties of the status normaliser *)

Normalised == pc = "status"

\* C22: for every ExitStatus, success() holds iff the kind is Exited and the
\* value 0; code() is Some(value) iff the kind is Exited, signal() iff it is
\* Killed or Dumped, stopped_signal() iff it is Stopped; continued() holds
\* iff the kind is Continued and core_dumped() iff it is Dumped; at most one
\* of code(), signal() and stopped_signal() is Some.
C22_AccessorsFollowKind ==
    Normalised =>
        LET s == childStatus
            some(kinds, o) == /\ (o # <<>>) <=> (s.kind \in kinds)
                              /\ o \in {<<>>, <<s.value>>}
        IN /\ success(s) <=> (s.kind = "Exited" /\ s.value = 0)
           /\ some({"Exited"}, code(s))
           /\ some({"Killed", "Dumped"}, signal(s))
           /\ some({"Stopped"}, stopped_signal(s))
           /\ continued(s) <=> (s.kind = "Continued")
           /\ core_dumped(s) <=> (s.kind = "Dumped")
           /\ Cardinality({i \in 1..3 :
                   <<code(s), signal(s), stopped_signal(s)>>[i] # <<>>}) <= 1

C22_Witness ==
    /\ Normalised
    /\ childStatus = Dumped(3)
    /\ signal(childStatus) = <<3>> /\ core_dumped(childStatus)
    /\ code(childStatus) = <<>> /\ ~success(childStatus)

DocumentedCodes ==
    {CLD_EXITED, CLD_KILLED, CLD_DUMPED, CLD_STOPPED, CLD_CONTINUED}

ClassifiedAs(kind, si_code) ==
    (childStatus.kind = kind) <=> (osStatus.si_code = si_code)

FiveKinds ==
    /\ ClassifiedAs("Exited", CLD_EXITED)
    /\ ClassifiedAs("Killed", CLD_KILLED)
    /\ ClassifiedAs("Dumped", CLD_DUMPED)
    /\ ClassifiedAs("Stopped", CLD_STOPPED)
    /\ ClassifiedAs("Continued", CLD_CONTINUED)
    /\ childStatus.value = osStatus.si_status

\* C23, as stated: every disposition code is classified into exactly one of
\* Exited, Killed, Dumped, Stopped and Continued, every other code is
\* Uncategorized, and no seventh kind is produced.
C23_SixKinds ==
    (Normalised /\ opt.unix_waitid) =>
        /\ FiveKinds
        /\ (childStatus.kind = "Uncategorized")
            <=> (osStatus.si_code \notin DocumentedCodes)
        /\ childStatus.kind \in {"Exited", "Killed", "Dumped", "Stopped",
                                 "Continued", "Uncategorized"}

\* C23: every disposition code is classified into exactly one of Exited,
\* Killed, Dumped, Stopped, Continued and, for CLD_TRAPPED, Trapped; every
\* other code is Uncategorized, and no eighth kind is produced.
C23_SevenKinds ==
    (Normalised /\ opt.unix_waitid) =>
        /\ FiveKinds
        /\ ClassifiedAs("Trapped", CLD_TRAPPED)
        /\ (childStatus.kind = "Uncategorized")
            <=> (osStatus.si_code \notin DocumentedCodes \cup {CLD_TRAPPED})
        /\ childStatus.kind \in {"Exited", "Killed", "Dumped", "Stopped",
                                 "Continued", "Trapped", "Uncategorized"}

C23_Witness ==
    /\ Normalised /\ opt.unix_waitid
    /\ osStatus.si_code = CLD_TRAPPED
    /\ childStatus.kind = "Trapped"
    /\ childStatus.value = osStatus.si_status

----------------------------------------------------------------------------
(* Properties of the handle-based wait *)

\* C29: on the handle-based platform, for every time limit, those that a
\* DWORD of milliseconds cannot hold included, each timeout passed to the
\* native wait is neither zero nor INFINITE, and wait() returns TimedOut
\* only once the whole limit has gone by; INFINITE is passed only when no
\* time limit is set, and then wait() never times out.
C29_TimeoutsNeverInfinite ==
    InHandleWait =>
        IF win.limit = NoLimit
        THEN win.passed \subseteq {INFINITE} /\ win.result # "timed_out"
        ELSE /\ win.passed \subseteq 1..(INFINITE - 1)
             /\ win.result = "timed_out" => win.elapsed >= win.limit

\* the same of windows/mod.rs alone
TimeLimitsChunked ==
    win.source = "windows/mod.rs" => C29_TimeoutsNeverInfinite

\* windows/mod.rs timing out a limit beyond DWORD::MAX after several waits
TimeLimitsChunkedAtWork ==
    /\ InHandleWait /\ win.source = "windows/mod.rs"
    /\ win.limit > DWORD_MAX
    /\ win.result = "timed_out"
    /\ Cardinality(win.passed) > 1

----------------------------------------------------------------------------
(* Properties of the overlapped reads *)

Dropped == InWinRead /\ win.pc \in {"dropped", "end"}

\* C30: when an AsyncPipe is dropped while its read is outstanding, the
\* OVERLAPPED is released, and the buffer left to be released, only if the
\* cancel request succeeded and the completion of the read was then awaited
\* with success; if either failed both are leaked. Memory the OS may still
\* write into is never freed.
C30_ReleasedOnlyAfterCompletion ==
    InWinRead =>
        /\ (Dropped /\ win.drop.reading) =>
            IF win.drop.cancel = "ok" /\ win.drop.await = "ok"
            THEN win.ev = "freed" /\ win.buf # "leaked"
            ELSE win.ev = "leaked" /\ win.buf = "leaked"
        /\ InFlight(win) => (win.ev # "freed" /\ win.buf # "freed")

\* dropped with the read outstanding, the cancel went through and waiting
\* for the completion failed: leaked, the read still in flight
C30_LeakedInFlight ==
    /\ Dropped /\ win.drop.reading
    /\ win.drop.cancel = "ok" /\ win.drop.await = "err"
    /\ InFlight(win)
    /\ win.ev = "leaked" /\ win.buf = "leaked"

\* dropped with the read outstanding after an error of the wait, the cancel
\* went through and the read was found completed: released
C30_Witness ==
    /\ win.pc = "end" /\ win.ret = "err" /\ win.drop.reading
    /\ win.drop.cancel = "ok" /\ win.drop.await = "ok"
    /\ win.op = "done"
    /\ win.ev = "freed" /\ win.buf = "freed"

----------------------------------------------------------------------------
(* Properties of the signal-based wait *)

\* the worker's call on the Child
WorkerTouchesChild == wk = "try_wait" /\ wk' # "try_wait"

\* C31: in the signal-based wait the worker calls into the Child only while
\* it holds the mutex, only when the slot is non-empty and only before
\* wait() has returned; and whenever wait() has returned - with a status,
\* on timeout or with an error - the slot is empty.
C31_ChildOnlyUnderLock ==
    /\ [](pc = "returned" => ~win.slot)
    /\ [][WorkerTouchesChild =>
            win.mutex = "worker" /\ win.slot /\ pc # "returned"]_vars
    /\ [][pc = "returned" => childStatus' = childStatus]_vars

\* wait() returned on timeout while the worker was still at work, and the
\* worker then found the slot empty
C31_Witness ==
    /\ pc = "returned" /\ result = OkNone
    /\ wkRes = Err("TimedOut")
    /\ ~win.slot

\* C38: the worker is subscribed to SIGCHLD before its first status check:
\* it never sleeps without a pending signal while the child has exited and
\* the slot is occupied, and once the child has exited with the slot
\* occupied the worker gets a result or the slot is emptied.
C38_NoMissedExit ==
    /\ [](wk = "sleep" /\ win.slot /\ ~win.pending => proc = "running")
    /\ [][WorkerTouchesChild => win.subscribed]_vars
    /\ (proc # "running" /\ win.slot /\ wk # "none")
           ~> (wk \in {"send", "exit"} \/ ~win.slot)

\* the child exited while the worker slept, and its signal is pending
C38_Witness ==
    /\ wk = "sleep" /\ win.pending /\ win.slot
    /\ proc = "zombie" /\ pc = "recv"

----------------------------------------------------------------------------
(* Properties of wait() on a child that signals can stop *)

\* the `expect("missing exit status")` of run_wait
ExpectPanicked == pc = "panic"

\* C32: whenever handle.wait returned a status, the try_wait that follows
\* yields a status, so that `expect("missing exit status")` never panics -
\* also for a child reported as stopped because waitid asks for WSTOPPED.
C32_ExpectNeverPanics == ~ExpectPanicked

----------------------------------------------------------------------------
(* Properties of output capture with a held pipe *)

\* wait() is in `reader.join()` with a status, the child has exited and
\* somebody else holds a write end
JoinHeld ==
    /\ pc = "join" /\ IsOkSome(result)
    /\ proc # "running" /\ win.held /\ reader = "running"

\* C33 as stated: with a time limit and output capture wait() returns in
\* every execution, also when the child exits within the limit and a write
\* end of a pipe stays open elsewhere.
C33_AlwaysReturns == <>Returned

\* C33: with a time limit and output capture wait() returns in every
\* execution, except when the child exits within the limit and a write end
\* of a pipe stays open elsewhere: wait() then stays in the join of the
\* reader for as long as that end is open.
C33_ReturnsUnlessHeld == <>Returned \/ <>[]JoinHeld

\* wait() returned after the time limit although the pipe was still held
C33_Witness ==
    /\ Returned /\ result = OkNone
    /\ win.held /\ reader = "running"

----------------------------------------------------------------------------
(* Properties of the reap that follows the kill *)

\* what Child::kill fails with
KillErrors == {"kill", "ESRCH"}

\* C34: after a timeout with terminate_for_timeout the blocking Child::wait
\* is reached only when the kill before it succeeded; when the kill failed,
\* wait() goes on without it.
C34_ReapOnlyAfterKill == pc = "reap" => faults \cap KillErrors = {}

----------------------------------------------------------------------------
(* Properties of finish_read *)

\* C35: every completed overlapped read is finished once - finish_read
\* extends the buffer by its byte count and runs the filter on those bytes a
\* single time - and no extension goes beyond the spare capacity, in every
\* state including Drop after an error of the filter.
C35_FinishedOnce == InWinRead => (win.finishes <= 1 /\ ~win.overrun)

----------------------------------------------------------------------------
(* Properties of read_overlapped *)

----------------------------------------------------------------------------
(* Properties of the buffers read2 returns *)

\* C37: the first buffer holds bytes of stdout only and the second bytes of
\* stderr only: each holds bytes read from the pipe of its own place, all
\* of them when read2 returns and no filter took any away, and the buffer
\* of a stream that is not piped stays empty, whichever pipes are there.
C37_BuffersByPlace ==
    \A s \in Streams :
        /\ ~rd.piped[s] => rd.buf[s] = <<>>
        /\ Range(rd.buf[s]) \subseteq 1..BytesRead(s)
        /\ (rd.phase = "done" /\ ~rd.filt[s])
            => rd.buf[s] = Bytes(rd.written[s])

\* read2 returned with stderr alone piped: all of it in the second buffer
C37_Witness ==
    /\ rd.phase = "done" /\ ~rd.piped[1] /\ rd.piped[2]
    /\ rd.buf[1] = <<>> /\ rd.buf[2] = Bytes(MaxWrite)

----------------------------------------------------------------------------
(* Properties of the filter calls *)

\* C39: the filter is never called with an empty chunk: run_filter runs
\* only when the read added at least one byte, so that its assertion
\* `index != buffer.len()` holds, and a read that only finds the end of the
\* stream calls no filter.
C39_NoEmptyChunk ==
    /\ [](~rd.empty)
    /\ [][\A s \in Streams :
            (rd.phase = "read" /\ StreamAt(rd, rd.i) = s
                /\ Len(rd.buf[s]) = rd.index /\ rd'.phase # "err")
            => rd'.seen[s] = rd.seen[s]]_vars

\* a filtered stream at its end, found by a read that added nothing, after
\* the filter had seen all of it
C39_Witness ==
    \E s \in Streams :
        /\ rd.filt[s] /\ rd.eof[s]
        /\ rd.seen[s] = Bytes(MaxWrite)
        /\ rd.index = Len(rd.buf[s]) /\ rd.phase = "done"

----------------------------------------------------------------------------
(* Properties of the job object *)

\* C40: whatever the sequence of set_memory_limit calls, the handle holds
\* one job at most: the job it held has been passed to CloseHandle before
\* JobHandle::init runs, whose assertion therefore holds, and once the
\* handle is dropped no job is left that was not passed to CloseHandle.
C40_OneJobAtATime ==
    InJob =>
        /\ ~win.asserted
        /\ LiveJobs(win) \subseteq {win.slot}
        /\ win.pc = "init" => (win.slot = NoJob /\ LiveJobs(win) = {})
        /\ win.pc = "dropped" => (win.slot = NoJob /\ LiveJobs(win) = {})

\* the handle is dropped after a limit was set again and again
C40_Witness ==
    /\ InJob /\ win.pc = "dropped"
    /\ win.made >= 2 /\ win.released = 1..win.made

====
